---- MODULE Spec2Model ----
(***************************************************************************)
(* fictjs/kit: the request handler built by createRequestHandler           *)
(* (packages/kit/src/server.ts).  One run is one call of the returned      *)
(* async function; every `await` of the source is a control point (pc).    *)
(* User code (route module accessors, load, action, verb handlers,         *)
(* getTemplate, render, the handle and handleError hooks) and the route    *)
(* matcher of @fictjs/router are external: each of their results is drawn  *)
(* from a small set when the call settles.                                 *)
(***************************************************************************)
EXTENDS Integers, Sequences, FiniteSets, TLC

\* ------------------------------------------------------------------ bounds
NumRoutes == 2
MaxChain == 2
MaxFiles == 3
MaxPreloads == 3
MaxRebuilds == 2

\* ------------------------------------------------------------ input domains
Runs == {1, 2}
Absent == "<absent>"

\* options.routes: route i is nested in every route before it.
RouteName(i) ==
  CASE i = 1 -> "a"
    [] i = 2 -> "a/b"
    [] OTHER -> "a/b/c"
RouteIds == {RouteName(i) : i \in 1..NumRoutes}
DATA_PREFIX == <<"_fict", "data">>
ACTION_PREFIX == <<"_fict", "action">>
PLACEHOLDER == "<!--app-html-->"

\* The ids of the routes handed to createFileRoutes.
FileRouteIds == {"index", "about"}

\* The part of the pathname behind a reserved prefix, still URL-encoded.
EncodedSuffixes == {"a", "a%2Fb", "ghost", "", "%"}

\* pathname as <<segment, segment, rest>>: "/page", "/_fict/data/<rest>",
\* "/_fict/action/<rest>".
ReservedPathnames ==
  {<<"_fict", "data", s>> : s \in EncodedSuffixes}
    \cup {<<"_fict", "action", s>> : s \in EncodedSuffixes}
Pathnames == {<<"page">>} \cup ReservedPathnames

\* Values of the ?__fict_data= and ?__fict_action= search parameters.
MarkerValues == {Absent, "1", "true", "a"}

\* A plain path with any pair of markers; a reserved path with each marker
\* missing or naming a route.
Urls ==
  [pathname : {<<"page">>}, dataMarker : MarkerValues, actionMarker : MarkerValues]
    \cup [pathname : ReservedPathnames, dataMarker : {Absent, "a"},
          actionMarker : {Absent, "a"}]

\* The ?url= search parameter: missing, a path, a string new URL rejects.
UrlParams == {Absent, "/target", "http://["}
Methods == {"GET", "HEAD", "POST"}
Accepts == SUBSET {"text/html", "application/json"}
Requests ==
  {[pathname |-> u.pathname, dataMarker |-> u.dataMarker, actionMarker |-> u.actionMarker,
    method |-> m, accept |-> a] : u \in Urls, m \in Methods, a \in Accepts}
HookConfigs == [handle : BOOLEAN, handleError : BOOLEAN]

\* Results of matchRoutes: chains of route ids, ancestors first.
Chains ==
  {[k \in 1..Len(c) |-> RouteName(c[k])] :
     c \in {d \in UNION {[1..n -> 1..NumRoutes] : n \in 0..MaxChain} :
             \A i, j \in DOMAIN d : i < j => d[i] < d[j]}}

\* RouteMatch.params, as the set of path parameters a match binds: those of
\* the patterns of its route and of the matched routes above it.  Route "a"
\* has the pattern /:id, route "a/b/c" adds /:post.
RouteParams(id) ==
  CASE id = "a" -> {"id"}
    [] id = "a/b/c" -> {"post"}
    [] OTHER -> {}
MatchParams(chain, k) == UNION {RouteParams(chain[j]) : j \in 1..k}

\* leaf?.params ?? {}
LeafParams(chain) == MatchParams(chain, Len(chain))

\* baseEvent.params (line 115)
EmptyParams == {}

\* No event has been handed to user code yet.
NoEvent == {Absent}

\* Values user code throws.  The handler never inspects them, so a run on
\* its own throws one value; the second run of a pair may throw another.
ErrValues == {"boom1", "boom2"}
Thrown(r) == IF r = 1 THEN {"boom1"} ELSE ErrValues
DataValues == {"d1", "d2"}

\* What one piece of user code does with event.setStatus / event.setHeaders:
\* st is the sequence of setStatus arguments, hd the header it sets.
Stagings ==
  {[st |-> <<>>, hd |-> "none"], [st |-> <<404, 201>>, hd |-> "cache-control"],
   [st |-> <<>>, hd |-> "content-type"]}
HookStagings ==
  {[st |-> <<>>, hd |-> "none"], [st |-> <<404>>, hd |-> "x-user"]}

\* route.cache.maxAge, numbers kept in tenths so that -1.5 and 120.5 exist.
MaxAges ==
  {[kind |-> "absent", tenths |-> 0], [kind |-> "nonfinite", tenths |-> 0]}
    \cup [kind : {"num"}, tenths : {-15, 1205}]

\* module.route undefined, or resolveLeafRouteMeta returning undefined.
NoRouteMeta ==
  [present |-> FALSE, ssr |-> "unset", maxAge |-> [kind |-> "absent", tenths |-> 0]]
RouteMetas ==
  {[present |-> FALSE, ssr |-> "unset", maxAge |-> [kind |-> "absent", tenths |-> 0]]}
    \cup [present : {TRUE}, ssr : {"unset", "true", "false"}, maxAge : MaxAges]

\* RouteModuleExports: which optional exports a module carries.
Modules ==
  [load : BOOLEAN, action : BOOLEAN, verbs : SUBSET {"GET", "POST"}, route : RouteMetas]

\* What the handler reads of a module at one place: each set below is the
\* set of values that field takes over Modules.
LoadExports == {[load |-> module.load] : module \in Modules}
ActionExports == {[action |-> module.action, verbs |-> module.verbs] : module \in Modules}
VerbExports == {[verbs |-> module.verbs] : module \in Modules}
RouteExports == {[route |-> module.route] : module \in Modules}

\* getTemplate results, as token sequences.
Templates ==
  {<<"<main>", PLACEHOLDER, "</main>">>, <<"<main>", "</main>">>,
   <<PLACEHOLDER, "<hr>", PLACEHOLDER>>}
Htmls == {"<div>app</div>"}

\* ------------------------------------------------------------------ headers
HeaderNames == {"content-type", "cache-control", "location", "x-user", "x-hook"}
NoHeaders == [h \in HeaderNames |-> Absent]
JSON_TYPE == "application/json; charset=utf-8"
HTML_TYPE == "text/html; charset=utf-8"

\* Headers.set for the headers one setHeaders call carries.
setHeaders(headers, call) ==
  CASE call = "x-user" -> [headers EXCEPT !["x-user"] = "u1"]
    [] call = "cache-control" -> [headers EXCEPT !["cache-control"] = "no-store"]
    [] call = "content-type" -> [headers EXCEPT !["content-type"] = "text/plain"]
    [] OTHER -> headers

\* The status left by a sequence of setStatus calls.
setStatus(status, calls) ==
  IF Len(calls) = 0 THEN status ELSE calls[Len(calls)]

Response(body, status, headers) ==
  [status |-> status, headers |-> headers, body |-> body]

\* Response bodies.  A JSON body lists its keys (Absent: key not present,
\* "null": JSON null); a text body is a token sequence.
JsonBody(type, error, routeId, leafId, data) ==
  [kind |-> "json", type |-> type, error |-> error, routeId |-> routeId,
   leafId |-> leafId, data |-> data, text |-> <<>>]

TextBody(tokens) ==
  [kind |-> "text", type |-> Absent, error |-> Absent, routeId |-> Absent,
   leafId |-> Absent, data |-> Absent, text |-> tokens]

NullBody ==
  [kind |-> "null", type |-> Absent, error |-> Absent, routeId |-> Absent,
   leafId |-> Absent, data |-> Absent, text |-> <<>>]

json(body, status, extraHeaders) ==
  Response(body, status, [extraHeaders EXCEPT !["content-type"] = JSON_TYPE])

\* Responses built by user code (verb handlers, actions, the handle hook).
UserResponseNames == {"ok", "gone"}

UserResponse(name) ==
  IF name = "ok"
  THEN Response(TextBody(<<"ok">>), 201, NoHeaders)
  ELSE Response(TextBody(<<"gone">>), 410, [NoHeaders EXCEPT !["x-user"] = "u2"])

\* --------------------------------------------------------- request classifier
startsWith(pathname, prefix) ==
  Len(pathname) = 3 /\ pathname[1] = prefix[1] /\ pathname[2] = prefix[2]

isDataRequest(url) ==
  startsWith(url.pathname, DATA_PREFIX) \/ url.dataMarker # Absent

isActionRequest(url) ==
  startsWith(url.pathname, ACTION_PREFIX) \/ url.actionMarker # Absent

\* resolve() testing the action class first.
classify_actionFirst(url) ==
  IF isActionRequest(url) THEN "action"
  ELSE IF isDataRequest(url) THEN "data"
  ELSE "route"

\* resolve()'s tests, in their order (lines 123, 132, 141): "route" is the
\* rest, where the API check runs before the page render.
classify(url) ==
  IF isDataRequest(url) THEN "data"
  ELSE IF isActionRequest(url) THEN "action"
  ELSE "route"

\* decodeURIComponent on the suffixes above; "%" is malformed and throws.
decodeThrows(s) == s = "%"

decodeURIComponent(s) ==
  CASE s = "a%2Fb" -> "a/b"
    [] OTHER -> s

\* getRequestedRouteId: Absent stands for undefined.  Callers test
\* requestedIdThrows first.
requestedIdThrows(url, prefix) ==
  startsWith(url.pathname, prefix) /\ decodeThrows(url.pathname[3])

getRequestedRouteId(url, prefix) ==
  IF startsWith(url.pathname, prefix)
  THEN [defined |-> TRUE, id |-> decodeURIComponent(url.pathname[3])]
  ELSE LET value == IF prefix = DATA_PREFIX THEN url.dataMarker ELSE url.actionMarker
       IN  IF value = Absent \/ value = "" \/ value = "1" \/ value = "true"
           THEN [defined |-> FALSE, id |-> ""]
           ELSE [defined |-> TRUE, id |-> value]

\* resolveTargetUrl on the raw ?url= search parameter (read once per run, so
\* drawn where it is read): "self" is the request url, "param" the url built
\* from the parameter.
resolveTargetUrl(raw) ==
  IF raw = Absent \/ raw = ""
  THEN "self"
  ELSE IF raw = "http://[" THEN "self" ELSE "param"

getMethodHandler(module, method) ==
  IF method \in {"GET", "POST", "PUT", "DELETE", "PATCH"}
  THEN method \in module.verbs
  ELSE FALSE

\* ---------------------------------------------------------------- event.fetch
\* The cookie and authorization headers of the inbound Request.
InboundHeaders ==
  [cookie : {Absent, "session=xyz"}, authorization : {Absent, "Bearer token"}]

\* Targets given to event.fetch; the inbound request's origin is http://local.
FetchInputs == {"/api/session", "http://local/api", "https://third-party.example/api"}

\* init as user code passes it: its headers and one more member.
FetchInits ==
  [cookie : {Absent, "own=1"}, authorization : {Absent, "Basic own"},
   xRequestId : {Absent, "abc123"}, method : {Absent, "POST"}]
NoFetchInit ==
  [cookie |-> Absent, authorization |-> Absent, xRequestId |-> Absent, method |-> Absent]

\* The arguments createEventFetch's closure hands to the global fetch
\* (lines 494-511): `headers` is the merged header set, the rest of init is
\* spread unchanged.
createEventFetch(request, input, init) ==
  LET cookie == request.cookie
      authorization == request.authorization
  IN  [input |-> input,
       init |-> [init EXCEPT
                   !.cookie = IF cookie # Absent /\ init.cookie = Absent
                              THEN cookie ELSE @,
                   !.authorization = IF authorization # Absent /\ init.authorization = Absent
                                     THEN authorization ELSE @]]

\* ---------------------------------------------------------- the route scanner
\* Paths and the strings made of them are sequences of characters.
SLASH == <<"/">>
INDEX == <<"i", "n", "d", "e", "x">>
DEFAULT_EXTENSIONS == << <<".", "t", "s">>, <<".", "t", "s", "x">>, <<".", "j", "s">>,
                         <<".", "j", "s", "x">> >>

\* String.prototype.lastIndexOf, counted from 1; 0 when c does not occur.
lastIndexOf(s, c) ==
  LET at == {i \in 1..Len(s) : s[i] = c}
  IN IF at = {} THEN 0 ELSE CHOOSE i \in at : \A j \in at : j <= i

\* path.basename and path.extname of node:path.
basename(file) == SubSeq(file, lastIndexOf(file, "/") + 1, Len(file))
extname(file) ==
  LET base == basename(file)
      dot == lastIndexOf(base, ".")
  IN IF dot <= 1 THEN <<>> ELSE SubSeq(base, dot, Len(base))

\* String.prototype.split on one character.
RECURSIVE split(_, _)
split(s, sep) ==
  LET at == {i \in 1..Len(s) : s[i] = sep}
  IN IF at = {} THEN <<s>>
     ELSE LET i == CHOOSE k \in at : \A j \in at : k <= j
          IN <<SubSeq(s, 1, i - 1)>> \o split(SubSeq(s, i + 1, Len(s)), sep)

\* Array.prototype.join of strings.
RECURSIVE join(_, _)
join(list, sep) ==
  IF list = <<>> THEN <<>>
  ELSE IF Len(list) = 1 THEN list[1]
  ELSE list[1] \o sep \o join(Tail(list), sep)

\* [^\]]+ : one character or more, none of them a closing bracket.
bracketFree(s) == Len(s) >= 1 /\ \A i \in 1..Len(s) : s[i] # "]"

Static(value) == [kind |-> "static", name |-> <<>>, value |-> value]
Dynamic(kind, name) == [kind |-> kind, name |-> name, value |-> <<>>]

parseSegment(segment) ==
  LET n == Len(segment)
      restMatch ==
        /\ n >= 6
        /\ SubSeq(segment, 1, 4) = <<"[", ".", ".", ".">>
        /\ segment[n] = "]"
        /\ bracketFree(SubSeq(segment, 5, n - 1))
      optionalMatch ==
        /\ n >= 5
        /\ SubSeq(segment, 1, 2) = <<"[", "[">>
        /\ SubSeq(segment, n - 1, n) = <<"]", "]">>
        /\ bracketFree(SubSeq(segment, 3, n - 2))
      paramMatch ==
        /\ n >= 3
        /\ segment[1] = "["
        /\ segment[n] = "]"
        /\ bracketFree(SubSeq(segment, 2, n - 1))
  IN IF restMatch THEN Dynamic("rest", SubSeq(segment, 5, n - 1))
     ELSE IF optionalMatch THEN Dynamic("optional-param", SubSeq(segment, 3, n - 2))
     ELSE IF paramMatch THEN Dynamic("param", SubSeq(segment, 2, n - 1))
     ELSE Static(segment)

toSegments(routeId) ==
  LET parts == split(routeId, "/")
      leaf == parts[Len(parts)]
      pathParts == IF leaf = INDEX THEN SubSeq(parts, 1, Len(parts) - 1) ELSE parts
      kept == SelectSeq(pathParts, LAMBDA part : part # <<>>)
  IN [i \in 1..Len(kept) |-> parseSegment(kept[i])]

encodePathSegment(segment) == segment

segmentToPathToken(segment) ==
  IF segment.kind = "static" THEN encodePathSegment(segment.value)
  ELSE IF segment.kind = "param" THEN <<":">> \o segment.name
  ELSE IF segment.kind = "optional-param" THEN <<":">> \o segment.name \o <<"?">>
  ELSE <<"*">> \o segment.name

\* replace(/\/+/g, '/') : every run of slashes becomes one slash.
RECURSIVE collapseSlashes(_)
collapseSlashes(s) ==
  IF Len(s) <= 1 THEN s
  ELSE IF s[1] = "/" /\ s[2] = "/" THEN collapseSlashes(Tail(s))
  ELSE <<s[1]>> \o collapseSlashes(Tail(s))

\* replace(/\/$/, '') : one slash at the end goes.
dropTrailingSlash(s) ==
  IF Len(s) >= 1 /\ s[Len(s)] = "/" THEN SubSeq(s, 1, Len(s) - 1) ELSE s

toRoutePath(segments) ==
  IF Len(segments) = 0 THEN SLASH
  ELSE LET tokens == [i \in 1..Len(segments) |-> segmentToPathToken(segments[i])]
           joined == join(SelectSeq(tokens, LAMBDA token : token # <<>>), SLASH)
           normalized == dropTrailingSlash(collapseSlashes(SLASH \o joined))
       IN IF normalized = <<>> THEN SLASH ELSE normalized

\* A signature that keeps the names of the parameters.
toSignature_withNames(segments) ==
  join([i \in 1..Len(segments) |->
          IF segments[i].kind = "static" THEN <<"s", ":">> \o segments[i].value
          ELSE <<"p", ":">> \o segments[i].name],
       SLASH)

toSignature(segments) ==
  join([i \in 1..Len(segments) |->
          IF segments[i].kind = "static" THEN <<"s", ":">> \o segments[i].value
          ELSE IF segments[i].kind = "param" THEN <<"p">>
          ELSE IF segments[i].kind = "optional-param" THEN <<"o">>
          ELSE <<"r">>],
       SLASH)

\* A score that weighs every parameter alike.
computeScore_flatParams(segments) ==
  Len(segments)
    + 100 * Cardinality({i \in 1..Len(segments) : segments[i].kind = "static"})
    + 10 * Cardinality({i \in 1..Len(segments) : segments[i].kind # "static"})

RECURSIVE computeScore(_)
computeScore(segments) ==
  IF segments = <<>> THEN 0
  ELSE LET segment == segments[1]
       IN 1 + (IF segment.kind = "static" THEN 100
               ELSE IF segment.kind = "param" THEN 10
               ELSE IF segment.kind = "optional-param" THEN 9
               ELSE 1)
            + computeScore(Tail(segments))

\* String.prototype.startsWith with a prefix of one character.
beginsWith(s, c) == Len(s) >= 1 /\ s[1] = c

\* A scanner that lets hidden files through.
isIgnoredRouteFile_underscoreOnly(absPath) == beginsWith(basename(absPath), "_")

isIgnoredRouteFile(absPath) ==
  LET base == basename(absPath)
  IN beginsWith(base, "_") \/ beginsWith(base, ".")

\* The place of a character in the collation String.prototype.localeCompare
\* uses: punctuation before letters, letters in the order of the alphabet.
CollationOrder ==
  <<"_", ":", "?", ".", "[", "]", "*", "/", "a", "b", "d", "e", "i", "j", "m", "n", "s",
    "t", "x", "y">>
charRank(c) == CHOOSE i \in 1..Len(CollationOrder) : CollationOrder[i] = c

\* left.localeCompare(right): negative, zero or positive.
RECURSIVE localeCompare(_, _)
localeCompare(left, right) ==
  IF left = <<>> THEN (IF right = <<>> THEN 0 ELSE -1)
  ELSE IF right = <<>> THEN 1
  ELSE IF left[1] = right[1] THEN localeCompare(Tail(left), Tail(right))
  ELSE IF charRank(left[1]) < charRank(right[1]) THEN -1 ELSE 1

\* The comparator of line 80.
compareRoutes(left, right) ==
  IF right.score - left.score # 0 THEN right.score - left.score
  ELSE localeCompare(left.id, right.id)

\* Array.prototype.sort is stable: records that compare equal keep their order.
RECURSIVE insertRoute(_, _)
insertRoute(sorted, record) ==
  IF sorted = <<>> THEN <<record>>
  ELSE IF compareRoutes(sorted[Len(sorted)], record) <= 0 THEN Append(sorted, record)
  ELSE Append(insertRoute(SubSeq(sorted, 1, Len(sorted) - 1), record), sorted[Len(sorted)])

RECURSIVE sortRoutes(_)
sortRoutes(routes) ==
  IF routes = <<>> THEN <<>>
  ELSE insertRoute(sortRoutes(SubSeq(routes, 1, Len(routes) - 1)), routes[Len(routes)])

\* A scanner whose ids lose a final 'index'.
toRecord_indexStripped(file) ==
  LET withoutExt == SubSeq(file, 1, Len(file) - Len(extname(file)))
      parts == split(withoutExt, "/")
      segments == toSegments(withoutExt)
  IN [id |-> join(IF parts[Len(parts)] = INDEX THEN SubSeq(parts, 1, Len(parts) - 1)
                  ELSE parts, SLASH),
      file |-> file, routePath |-> toRoutePath(segments), segments |-> segments,
      signature |-> toSignature(segments), score |-> computeScore(segments)]

\* The record of lines 38-53 for one file, given relative to routesDir.
toRecord(file) ==
  LET relative == file
      ext == extname(relative)
      withoutExt == IF Len(ext) = 0 THEN <<>>
                    ELSE SubSeq(relative, 1, Len(relative) - Len(ext))
      id == withoutExt
      segments == toSegments(withoutExt)
  IN [id |-> id, file |-> file, routePath |-> toRoutePath(segments), segments |-> segments,
      signature |-> toSignature(segments), score |-> computeScore(segments)]

\* The entries of a Map filled by appendMap, in the order of insertion.
grouped(routes, field) ==
  LET firsts == SelectSeq([i \in 1..Len(routes) |-> i],
                          LAMBDA i : \A j \in 1..(i - 1) : routes[j][field] # routes[i][field])
  IN [g \in 1..Len(firsts) |->
        [key |-> routes[firsts[g]][field],
         records |-> SelectSeq(routes,
                               LAMBDA record : record[field] = routes[firsts[g]][field])]]

\* A scanner that reports groups of three records or more only.
conflicts_fromThree(groups, text) ==
  LET many == SelectSeq(groups, LAMBDA group : Len(group.records) >= 3)
  IN [g \in 1..Len(many) |->
        [level |-> "error",
         message |-> [text |-> text, key |-> many[g].key,
                      records |-> [i \in 1..Len(many[g].records) |->
                                     <<many[g].records[i].id>>]]]]

\* One error for every group of two records or more (lines 60-78).
conflicts(groups, text) ==
  LET many == SelectSeq(groups, LAMBDA group : Len(group.records) >= 2)
  IN [g \in 1..Len(many) |->
        [level |-> "error",
         message |-> [text |-> text, key |-> many[g].key,
                      records |-> [i \in 1..Len(many[g].records) |->
                                     IF text = "Route signature conflict"
                                     THEN <<many[g].records[i].id, many[g].records[i].routePath>>
                                     ELSE <<many[g].records[i].id>>]]]]

\* A gate that throws on a diagnostic of any level.
assertNoRouteErrors_anyDiagnostic(diagnostics) ==
  [threw |-> diagnostics # <<>>,
   message |-> [i \in 1..Len(diagnostics) |-> diagnostics[i].message]]

\* assertNoRouteErrors: it returns, or throws an Error whose message joins
\* the messages of the error diagnostics.
assertNoRouteErrors(diagnostics) ==
  LET errors == SelectSeq(diagnostics, LAMBDA d : d.level = "error")
  IN IF Len(errors) = 0 THEN [threw |-> FALSE, message |-> <<>>]
     ELSE [threw |-> TRUE, message |-> [i \in 1..Len(errors) |-> errors[i].message]]

\* scanRoutes on a routes directory: `walked` is what walk() returns, `ignore`
\* the files options.ignore answers true for.
scanRoutes(options, exists, walked) ==
  IF ~exists
  THEN [routes |-> <<>>,
        diagnostics |-> <<[level |-> "warn",
                           message |-> [text |-> "Routes directory does not exist",
                                        key |-> <<>>, records |-> <<>>]]>>]
  ELSE LET exts == IF Len(options.extensions) # 0 THEN options.extensions
                   ELSE DEFAULT_EXTENSIONS
           routeFiles ==
             SelectSeq(SelectSeq(SelectSeq(walked,
                                           LAMBDA file : \E i \in 1..Len(exts) :
                                                           exts[i] = extname(file)),
                                 LAMBDA file : ~isIgnoredRouteFile(file)),
                       LAMBDA file : file \notin options.ignore)
           routes == [i \in 1..Len(routeFiles) |-> toRecord(routeFiles[i])]
           bySignature == grouped(routes, "signature")
           byRoutePath == grouped(routes, "routePath")
       IN [routes |-> sortRoutes(routes),
           diagnostics |-> conflicts(bySignature, "Route signature conflict")
                             \o conflicts(byRoutePath, "Duplicate route path")]

\* ------------------------------------------------------------------- state
VARIABLES
  inbound,          \* cookie / authorization of the Request given to createEventFetch
  fetchArgs,        \* the arguments of the latest event.fetch call
  sent,             \* the arguments of the latest call of the global fetch
  hooks,            \* options.hooks: which hooks are configured
  ssrEnabled,       \* options.ssrEnabled as the caller passes it (TRUE: not passed)
  req,              \* req[r]: the Request of run r
  pc,               \* pc[r]: the await at which run r is suspended
  responseHeaders,  \* closure variable responseHeaders
  responseStatus,   \* closure variable responseStatus
  matches,          \* local `matches` of resolve() / handleDataRequest / handleActionRequest
  routeId,          \* local `routeId` of handleDataRequest / handleActionRequest
  idx,              \* position of loadMatchedRouteData's for loop in matches
  routeData,        \* local `routeData` of loadMatchedRouteData
  template,         \* local `template` of resolve()
  calls,            \* calls[r][f]: how often the run has called external function f
  loads,            \* route ids whose load the run has invoked, in order
  settled,          \* how many of those load promises have settled
  last,             \* the latest result an external call gave the run
  threw,            \* where the exception the run is answering was raised
  caught,           \* the value bound by the catch block that ran last
  resolveCalls,     \* number of resolve() calls
  errorCalls,       \* number of handleError invocations
  given,            \* params of the event handed to the user code called last
  routesDir,        \* the routes directory on disk: whether it exists, its files
  scanOptions,      \* the options scanRoutes is called with
  scanned,          \* what scanRoutes has returned
  asserted,         \* how assertNoRouteErrors ended on the scan's diagnostics
  initialData,      \* createFileRoutes: the route ids options.initialData has
  fetchData,        \* createFileRoutes: options.fetchData (false, a function, absent)
  initialDataConsumed, \* closure variable initialDataConsumed of each route definition
  preloaded,        \* the preload calls made so far and where each got its result
  rebuilds,         \* dev plugin: the rebuildRoutes calls started, in order
  plugin,           \* dev plugin: closure variables routes and *RoutesModule
  ret,              \* what resolve() settled with, inside the handle hook
  outcome           \* what the handler's promise settled with

vars ==
  <<inbound, fetchArgs, sent, hooks, ssrEnabled, req, pc, responseHeaders, responseStatus,
    matches, routeId, idx, routeData, template, calls, loads, settled, last, threw, caught,
    resolveCalls, errorCalls, given, routesDir, scanOptions, scanned, asserted,
    initialData, fetchData, initialDataConsumed, preloaded, rebuilds, plugin, ret, outcome>>

fetchVars == <<inbound, fetchArgs, sent>>
scanVars == <<routesDir, scanOptions, scanned, asserted>>
preloadVars == <<initialData, fetchData, initialDataConsumed, preloaded>>
devVars == <<rebuilds, plugin>>
cfg == <<hooks, ssrEnabled, req, fetchVars, scanVars, preloadVars, devVars>>
staged == <<responseHeaders, responseStatus>>
locals == <<matches, routeId, idx, routeData, template>>
history == <<calls, loads, settled>>

\* Settlements of a promise.
NoResponse == Response(NullBody, 0, NoHeaders)
Pending == [kind |-> "pending", response |-> NoResponse, error |-> Absent]
Resolved(response) == [kind |-> "response", response |-> response, error |-> Absent]
Rejected(error) == [kind |-> "rejected", response |-> NoResponse, error |-> error]

\* The result of an external call; `meta` is the route export a module
\* accessor gave resolveLeafRouteMeta.
EvMeta(ev, id, val, staging, meta) ==
  [ev |-> ev, id |-> id, val |-> val, st |-> staging.st, hd |-> staging.hd, meta |-> meta]
Ev(ev, id, val, staging) == EvMeta(ev, id, val, staging, NoRouteMeta)
NoStaging == [st |-> <<>>, hd |-> "none"]

Sites == {"module", "load", "action", "verb", "getTemplate", "render", "handle"}
Bump(c, site) == [c EXCEPT ![site] = @ + 1]

InitRun(q, active) ==
  /\ req = [r \in Runs |-> q]
  /\ pc = [r \in Runs |-> IF r \in active THEN "start" ELSE "off"]
  /\ responseHeaders = [r \in Runs |-> NoHeaders]
  /\ responseStatus = [r \in Runs |-> 200]
  /\ matches = [r \in Runs |-> <<>>]
  /\ routeId = [r \in Runs |-> ""]
  /\ idx = [r \in Runs |-> 0]
  /\ routeData = [r \in Runs |-> <<>>]
  /\ template = [r \in Runs |-> <<>>]
  /\ calls = [r \in Runs |-> [f \in Sites |-> 0]]
  /\ loads = [r \in Runs |-> <<>>]
  /\ settled = [r \in Runs |-> 0]
  /\ last = [r \in Runs |-> Ev("none", "", Absent, NoStaging)]
  /\ threw = [r \in Runs |-> Absent]
  /\ caught = [r \in Runs |-> Absent]
  /\ resolveCalls = [r \in Runs |-> 0]
  /\ errorCalls = [r \in Runs |-> 0]
  /\ given = [r \in Runs |-> NoEvent]
  /\ ret = [r \in Runs |-> Pending]
  /\ outcome = [r \in Runs |-> Pending]

\* No event.fetch call has been made.
NoFetch == [input |-> Absent, init |-> NoFetchInit]

InitFetch(request) ==
  /\ inbound = request
  /\ fetchArgs = NoFetch
  /\ sent = NoFetch

\* scanRoutes has not been called.
NoScanYet ==
  /\ routesDir = [exists |-> FALSE, files |-> {}]
  /\ scanOptions = [extensions |-> <<>>, ignore |-> {}]
  /\ scanned = <<>>
  /\ asserted = <<>>

\* createFileRoutes has not been called.
NoPreloadYet ==
  /\ initialData = {}
  /\ fetchData = Absent
  /\ initialDataConsumed = [id \in FileRouteIds |-> FALSE]
  /\ preloaded = <<>>

\* The dev plugin has not been set up.
NoRebuildYet ==
  /\ rebuilds = <<>>
  /\ plugin = [routes |-> <<>>, clientRoutesModule |-> <<>>, serverRoutesModule |-> <<>>]

Init ==
  /\ hooks \in HookConfigs
  /\ ssrEnabled = TRUE
  /\ \E q \in Requests : InitRun(q, {1})
  /\ InitFetch([cookie |-> Absent, authorization |-> Absent])
  /\ NoScanYet /\ NoPreloadYet /\ NoRebuildYet

\* ------------------------------------------------- settling and containment
\* A promise settles: runResolve()'s inside the handle hook (final = FALSE,
\* lines 220-226 and 230), the handler's own otherwise (lines 230-236).
Deliver(r, result, final) ==
  IF final
  THEN /\ pc' = [pc EXCEPT ![r] = "done"]
       /\ outcome' = [outcome EXCEPT ![r] = result]
       /\ UNCHANGED ret
  ELSE /\ pc' = [pc EXCEPT ![r] = "hookPost"]
       /\ ret' = [ret EXCEPT ![r] = result]
       /\ UNCHANGED outcome

\* respondInternalError putting the error's message into the body.
respondInternalError_withMessage(request, error) ==
  IF isDataRequest(request)
  THEN json(JsonBody("data", error, Absent, Absent, Absent), 500, NoHeaders)
  ELSE IF isActionRequest(request)
  THEN json(JsonBody("action", error, Absent, Absent, Absent), 500, NoHeaders)
  ELSE json(JsonBody(Absent, error, Absent, Absent, Absent), 500, NoHeaders)

\* The response respondInternalError builds once the handleError hook has
\* returned (lines 201-217).
respondInternalError(request, error) ==
  IF isDataRequest(request)
  THEN json(JsonBody("data", "internal_error", Absent, Absent, Absent), 500, NoHeaders)
  ELSE IF isActionRequest(request)
  THEN json(JsonBody("action", "internal_error", Absent, Absent, Absent), 500, NoHeaders)
  ELSE LET isJsonRequest == "application/json" \in request.accept
           isMutation == request.method # "GET" /\ request.method # "HEAD"
       IN  IF isJsonRequest \/ isMutation
           THEN json(JsonBody(Absent, "internal_error", Absent, Absent, Absent), 500, NoHeaders)
           ELSE Response(TextBody(<<"Internal Server Error">>), 500, NoHeaders)

\* A catch block answering with respondInternalError(error) (lines 198-199,
\* 223-225, 231-233): the handleError hook is called first, unguarded, so an
\* error it throws leaves the catch block.  `before` is the number of
\* handleError calls made so far.
Contain(r, before, error, final) ==
  /\ caught' = [caught EXCEPT ![r] = error]
  /\ IF hooks.handleError
     THEN /\ errorCalls' = [errorCalls EXCEPT ![r] = before + 1]
          /\ given' = [given EXCEPT ![r] = EmptyParams]
          /\ \/ /\ last' = [last EXCEPT ![r] = Ev("handleError", "", "returned", NoStaging)]
                /\ Deliver(r, Resolved(respondInternalError(req[r], error)), final)
             \/ \E e2 \in Thrown(r) :
                  /\ last' = [last EXCEPT ![r] = Ev("handleError", "", "threw", NoStaging)]
                  /\ Deliver(r, Rejected(e2), final)
     ELSE /\ errorCalls' = [errorCalls EXCEPT ![r] = before]
          /\ UNCHANGED given
          /\ last' = [last EXCEPT ![r] = Ev("catch", "", Absent, NoStaging)]
          /\ Deliver(r, Resolved(respondInternalError(req[r], error)), final)

\* resolve() returns `response`; runResolve hands it on (line 222).
Return(r, ev, response) ==
  /\ last' = [last EXCEPT ![r] = ev]
  /\ UNCHANGED <<errorCalls, threw, caught, given>>
  /\ Deliver(r, Resolved(response), ~hooks.handle)

\* resolve() throws `error`, raised at `site`: runResolve's catch (lines 223-225).
Throw(r, site, error) ==
  /\ threw' = [threw EXCEPT ![r] = site]
  /\ Contain(r, errorCalls[r], error, ~hooks.handle)

\* The run calls user code with an event whose params are `params`, and
\* awaits it.
Call(r, label, ev, params) ==
  /\ pc' = [pc EXCEPT ![r] = label]
  /\ last' = [last EXCEPT ![r] = ev]
  /\ given' = [given EXCEPT ![r] = params]
  /\ UNCHANGED <<threw, caught, errorCalls, ret, outcome>>

\* The run goes on to its next await.
Goto(r, label, ev) ==
  /\ pc' = [pc EXCEPT ![r] = label]
  /\ last' = [last EXCEPT ![r] = ev]
  /\ UNCHANGED <<threw, caught, errorCalls, given, ret, outcome>>

\* ----------------------------------------------------- handler entry, hook
\* Lines 95-120 and 228-236: build the context, then enter the handle hook
\* or runResolve.
Start(r) ==
  /\ pc[r] = "start"
  /\ IF hooks.handle
     THEN /\ Call(r, "hookPre", last[r], EmptyParams)
          /\ calls' = [calls EXCEPT ![r] = Bump(@, "handle")]
          /\ UNCHANGED resolveCalls
     ELSE /\ Goto(r, "resolve", last[r])
          /\ resolveCalls' = [resolveCalls EXCEPT ![r] = 1]
          /\ UNCHANGED calls
  /\ UNCHANGED <<cfg, staged, locals, loads, settled>>

\* The handle hook calls resolve(); before that it may stage a status and
\* headers through event.setStatus / event.setHeaders.  The hooks modelled
\* here call resolve() at most once.
HookCallsResolve(r) ==
  /\ pc[r] = "hookPre"
  /\ \E staging \in HookStagings :
       /\ responseStatus' = [responseStatus EXCEPT ![r] = setStatus(@, staging.st)]
       /\ responseHeaders' = [responseHeaders EXCEPT ![r] = setHeaders(@, staging.hd)]
       /\ Goto(r, "resolve", Ev("handle", "", "resolve", staging))
  /\ resolveCalls' = [resolveCalls EXCEPT ![r] = @ + 1]
  /\ UNCHANGED <<cfg, locals, history>>

\* The handle hook returns a Response: its own, or the one resolve() gave,
\* as it is or with a header added.
HookReturns(r) ==
  /\ pc[r] \in {"hookPre", "hookPost"}
  /\ \/ /\ last' = [last EXCEPT ![r] = Ev("handle", "", "own", NoStaging)]
        /\ Deliver(r, Resolved(UserResponse("gone")), TRUE)
     \/ /\ pc[r] = "hookPost"
        /\ ret[r].kind = "response"
        /\ \/ /\ last' = [last EXCEPT ![r] = Ev("handle", "", "same", NoStaging)]
              /\ Deliver(r, ret[r], TRUE)
           \/ /\ last' = [last EXCEPT ![r] = Ev("handle", "", "x-hook", NoStaging)]
              /\ Deliver(r, Resolved([ret[r].response EXCEPT !.headers["x-hook"] = "yes"]), TRUE)
  /\ UNCHANGED <<cfg, staged, locals, history, threw, caught, resolveCalls, errorCalls, given>>

\* The handle hook throws (its own error, or the rejection of resolve() it
\* did not catch): the catch of lines 231-233.
HookThrows(r) ==
  /\ pc[r] \in {"hookPre", "hookPost"}
  /\ threw' = [threw EXCEPT ![r] = "handle"]
  /\ \E e \in Thrown(r) : Contain(r, errorCalls[r], e, TRUE)
  /\ UNCHANGED <<cfg, staged, locals, history, resolveCalls>>

\* ------------------------------------------------------------- data path
\* handleDataRequest without the route table lookup of lines 329-332.
dataRoute_noTableLookup(requested, chain) ==
  IF Len(chain) = 0
  THEN [proceed |-> FALSE, routeId |-> "",
        response |-> json(JsonBody("data", "no_match", Absent, Absent, Absent), 404, NoHeaders)]
  ELSE LET leafId == chain[Len(chain)]
           id == IF requested.defined THEN requested.id ELSE leafId
       IN  IF leafId # id
           THEN [proceed |-> FALSE, routeId |-> id,
                 response |-> json(JsonBody("data", "route_mismatch", id, leafId, Absent), 400, NoHeaders)]
           ELSE [proceed |-> TRUE, routeId |-> id, response |-> NoResponse]

\* Lines 315-336: which route a data request is for, or the error response.
dataRoute(requested, chain) ==
  IF Len(chain) = 0
  THEN [proceed |-> FALSE, routeId |-> "",
        response |-> json(JsonBody("data", "no_match", Absent, Absent, Absent), 404, NoHeaders)]
  ELSE LET leafId == chain[Len(chain)]
           id == IF requested.defined THEN requested.id ELSE leafId
       IN  IF id = ""
           THEN [proceed |-> FALSE, routeId |-> id,
                 response |-> json(JsonBody("data", "unknown_route", Absent, Absent, Absent), 404, NoHeaders)]
           ELSE IF id \notin RouteIds
           THEN [proceed |-> FALSE, routeId |-> id,
                 response |-> json(JsonBody("data", "unknown_route", id, Absent, Absent), 404, NoHeaders)]
           ELSE IF leafId # "" /\ leafId # id
           THEN [proceed |-> FALSE, routeId |-> id,
                 response |-> json(JsonBody("data", "route_mismatch", id, leafId, Absent), 400, NoHeaders)]
           ELSE [proceed |-> TRUE, routeId |-> id, response |-> NoResponse]

\* resolve() on a data request (lines 123-130) and handleDataRequest up to
\* its first await (line 338).
handleDataRequest(r) ==
  /\ pc[r] = "resolve"
  /\ classify(req[r]) = "data"
  /\ IF requestedIdThrows(req[r], DATA_PREFIX)
     THEN /\ Throw(r, "decode", "URIError")
          /\ UNCHANGED <<locals, calls>>
     ELSE \E raw \in UrlParams, chain \in Chains :
            LET route == dataRoute(getRequestedRouteId(req[r], DATA_PREFIX), chain)
                ev == Ev("matchRoutes", resolveTargetUrl(raw), Absent, NoStaging)
            IN  /\ matches' = [matches EXCEPT ![r] = chain]
                /\ routeId' = [routeId EXCEPT ![r] = route.routeId]
                /\ UNCHANGED <<idx, routeData, template>>
                /\ IF route.proceed
                   THEN /\ Goto(r, "dataModule", ev)
                        /\ calls' = [calls EXCEPT ![r] = Bump(@, "module")]
                   ELSE /\ Return(r, ev, route.response)
                        /\ UNCHANGED calls
  /\ UNCHANGED <<cfg, staged, loads, settled, resolveCalls>>

\* `await entry.module()` settles (line 338); without a load export the
\* answer is data: null, else load is called (line 346).
dataModuleSettles(r) ==
  /\ pc[r] = "dataModule"
  /\ \/ /\ \E e \in Thrown(r) : Throw(r, "module", e)
        /\ UNCHANGED <<calls, loads>>
     \/ \E module \in LoadExports :
          IF ~module.load
          THEN /\ Return(r, Ev("module", routeId[r], "no load", NoStaging),
                         json(JsonBody("data", Absent, routeId[r], Absent, "null"), 200, NoHeaders))
               /\ UNCHANGED <<calls, loads>>
          ELSE /\ Call(r, "dataLoad", Ev("module", routeId[r], "load", NoStaging),
                       LeafParams(matches[r]))
               /\ calls' = [calls EXCEPT ![r] = Bump(@, "load")]
               /\ loads' = [loads EXCEPT ![r] = Append(@, routeId[r])]
  /\ UNCHANGED <<cfg, staged, locals, settled, resolveCalls>>

\* `await module.load(...)` settles (lines 346-359); setHeaders and
\* setStatus of this event write the local `headers` and `status`.
dataLoadSettles(r) ==
  /\ pc[r] = "dataLoad"
  /\ settled' = [settled EXCEPT ![r] = @ + 1]
  /\ \/ \E e \in Thrown(r) : Throw(r, "load", e)
     \/ \E data \in DataValues, staging \in Stagings :
          Return(r, Ev("load", routeId[r], data, staging),
                 json(JsonBody("data", Absent, routeId[r], Absent, data),
                      setStatus(200, staging.st), setHeaders(NoHeaders, staging.hd)))
  /\ UNCHANGED <<cfg, staged, locals, calls, loads, resolveCalls>>

\* ----------------------------------------------------------- action path
\* What an action may return: a Response, redirect(...) results, objects
\* that only look like one, and plain values.  status 0 stands for a missing
\* status; redirect(200, '/next') and { location, status: 404 } are results
\* with a status outside 300..399.
ActionResultNames ==
  {"response", "redirect", "redirect200", "shape", "shape307", "shape404", "value"}

ActionResult(name) ==
  CASE name = "response" ->
         [isResponse |-> TRUE, type |-> Absent, location |-> Absent, status |-> 0, data |-> Absent]
    [] name = "redirect" ->
         [isResponse |-> FALSE, type |-> "redirect", location |-> "/next", status |-> 303, data |-> Absent]
    [] name = "redirect200" ->
         [isResponse |-> FALSE, type |-> "redirect", location |-> "/next", status |-> 200, data |-> Absent]
    [] name = "shape" ->
         [isResponse |-> FALSE, type |-> Absent, location |-> "/login", status |-> 0, data |-> Absent]
    [] name = "shape307" ->
         [isResponse |-> FALSE, type |-> Absent, location |-> "/login", status |-> 307, data |-> Absent]
    [] name = "shape404" ->
         [isResponse |-> FALSE, type |-> Absent, location |-> "/login", status |-> 404, data |-> Absent]
    [] OTHER ->
         [isResponse |-> FALSE, type |-> Absent, location |-> Absent, status |-> 0, data |-> "d1"]

isRedirectResult(value) == value.type = "redirect" /\ value.location # Absent

isRedirectShape(value) == value.location # Absent

\* handleActionRequest without the leaf comparison of lines 387-389.
actionRoute_noLeafCheck(requested, chain) ==
  IF Len(chain) = 0
  THEN [proceed |-> FALSE, routeId |-> "",
        response |-> json(JsonBody("action", "no_match", Absent, Absent, Absent), 404, NoHeaders)]
  ELSE LET leafId == chain[Len(chain)]
           id == IF requested.defined THEN requested.id ELSE leafId
       IN  IF id \notin RouteIds
           THEN [proceed |-> FALSE, routeId |-> id,
                 response |-> json(JsonBody("action", "unknown_route", id, Absent, Absent), 404, NoHeaders)]
           ELSE [proceed |-> TRUE, routeId |-> id, response |-> NoResponse]

\* Lines 368-389: which route an action request is for, or the error response.
actionRoute(requested, chain) ==
  IF Len(chain) = 0
  THEN [proceed |-> FALSE, routeId |-> "",
        response |-> json(JsonBody("action", "no_match", Absent, Absent, Absent), 404, NoHeaders)]
  ELSE LET leafId == chain[Len(chain)]
           id == IF requested.defined THEN requested.id ELSE leafId
       IN  IF id = ""
           THEN [proceed |-> FALSE, routeId |-> id,
                 response |-> json(JsonBody("action", "unknown_route", Absent, Absent, Absent), 404, NoHeaders)]
           ELSE IF id \notin RouteIds
           THEN [proceed |-> FALSE, routeId |-> id,
                 response |-> json(JsonBody("action", "unknown_route", id, Absent, Absent), 404, NoHeaders)]
           ELSE IF leafId # "" /\ leafId # id
           THEN [proceed |-> FALSE, routeId |-> id,
                 response |-> json(JsonBody("action", "route_mismatch", id, leafId, Absent), 400, NoHeaders)]
           ELSE [proceed |-> TRUE, routeId |-> id, response |-> NoResponse]

\* The response for an action's result, an untagged redirect always 302.
actionResponse_always302(name, id, status, headers) ==
  LET result == ActionResult(name)
  IN  IF result.isResponse
      THEN UserResponse("ok")
      ELSE IF isRedirectResult(result)
      THEN Response(NullBody, result.status, [NoHeaders EXCEPT !["location"] = result.location])
      ELSE IF isRedirectShape(result)
      THEN Response(NullBody, 302, [NoHeaders EXCEPT !["location"] = result.location])
      ELSE json(JsonBody("action", Absent, id, Absent, result.data), status, headers)

\* Lines 413-429: the response for what the action returned.
actionResponse(name, id, status, headers) ==
  LET result == ActionResult(name)
  IN  IF result.isResponse
      THEN UserResponse("ok")
      ELSE IF isRedirectResult(result)
      THEN Response(NullBody, result.status, [NoHeaders EXCEPT !["location"] = result.location])
      ELSE IF isRedirectShape(result)
      THEN Response(NullBody, IF result.status = 0 THEN 302 ELSE result.status,
                    [NoHeaders EXCEPT !["location"] = result.location])
      ELSE json(JsonBody("action", Absent, id, Absent, result.data), status, headers)

\* resolve() on an action request (lines 132-139) and handleActionRequest up
\* to its first await (line 391).
handleActionRequest(r) ==
  /\ pc[r] = "resolve"
  /\ classify(req[r]) = "action"
  /\ IF requestedIdThrows(req[r], ACTION_PREFIX)
     THEN /\ Throw(r, "decode", "URIError")
          /\ UNCHANGED <<locals, calls>>
     ELSE \E raw \in UrlParams, chain \in Chains :
            LET route == actionRoute(getRequestedRouteId(req[r], ACTION_PREFIX), chain)
                ev == Ev("matchRoutes", resolveTargetUrl(raw), Absent, NoStaging)
            IN  /\ matches' = [matches EXCEPT ![r] = chain]
                /\ routeId' = [routeId EXCEPT ![r] = route.routeId]
                /\ UNCHANGED <<idx, routeData, template>>
                /\ IF route.proceed
                   THEN /\ Goto(r, "actionModule", ev)
                        /\ calls' = [calls EXCEPT ![r] = Bump(@, "module")]
                   ELSE /\ Return(r, ev, route.response)
                        /\ UNCHANGED calls
  /\ UNCHANGED <<cfg, staged, loads, settled, resolveCalls>>

\* `await entry.module()` settles (line 391); the action is module.action,
\* else the verb handler of the request method (line 392).  `exports` notes
\* which of the two the module has.
actionModuleSettles(r) ==
  /\ pc[r] = "actionModule"
  /\ \/ /\ \E e \in Thrown(r) : Throw(r, "module", e)
        /\ UNCHANGED calls
     \/ \E module \in ActionExports :
          LET fn == IF module.action THEN "action"
                    ELSE IF getMethodHandler(module, req[r].method) THEN "verb"
                    ELSE "none"
              exports == IF module.action /\ getMethodHandler(module, req[r].method)
                         THEN "action+verb"
                         ELSE IF module.action THEN "action"
                         ELSE IF getMethodHandler(module, req[r].method) THEN "verb"
                         ELSE "none"
          IN  IF fn = "none"
              THEN /\ Return(r, Ev("module", routeId[r], exports, NoStaging),
                             json(JsonBody("action", Absent, routeId[r], Absent, "null"), 200, NoHeaders))
                   /\ UNCHANGED calls
              ELSE /\ Call(r, "actionCall", Ev("module", routeId[r], exports, NoStaging),
                           LeafParams(matches[r]))
                   /\ calls' = [calls EXCEPT ![r] = Bump(@, fn)]
  /\ UNCHANGED <<cfg, staged, locals, loads, settled, resolveCalls>>

\* `await action(...)` settles (lines 400-429).
actionSettles(r) ==
  /\ pc[r] = "actionCall"
  /\ \/ \E e \in Thrown(r) : Throw(r, IF calls[r]["action"] > 0 THEN "action" ELSE "verb", e)
     \/ \E name \in ActionResultNames, staging \in Stagings :
          Return(r, Ev("action", routeId[r], name, staging),
                 actionResponse(name, routeId[r], setStatus(200, staging.st),
                                setHeaders(NoHeaders, staging.hd)))
  /\ UNCHANGED <<cfg, staged, locals, history, resolveCalls>>

\* -------------------------------------------------------------- page path
includes(tokens, token) == \E i \in DOMAIN tokens : tokens[i] = token

\* String.prototype.replace with a string pattern: the first occurrence only.
replace(tokens, token, replacement) ==
  IF ~includes(tokens, token)
  THEN tokens
  ELSE LET i == CHOOSE k \in DOMAIN tokens :
                  tokens[k] = token /\ \A j \in 1..(k - 1) : tokens[j] # token
       IN  SubSeq(tokens, 1, i - 1) \o replacement \o SubSeq(tokens, i + 1, Len(tokens))

\* Math.floor(maxAge) without the clamp at 0.
normalizeMaxAge_noClamp(tenths) == tenths \div 10

\* Math.max(0, Math.floor(maxAge)) on a number given in tenths.
normalizeMaxAge(tenths) ==
  LET floor == tenths \div 10
  IN  IF floor < 0 THEN 0 ELSE floor

\* Lines 551-559.
applyCacheMeta(headers, routeMeta) ==
  IF ~routeMeta.present \/ routeMeta.maxAge.kind # "num"
  THEN headers
  ELSE [headers EXCEPT !["cache-control"] =
          "public, max-age=" \o ToString(normalizeMaxAge(routeMeta.maxAge.tenths))]

\* Lines 189-195: the page response.
pageResponse(tmpl, html, status, headers) ==
  Response(TextBody(IF includes(tmpl, PLACEHOLDER)
                    THEN replace(tmpl, PLACEHOLDER, <<html>>)
                    ELSE <<html>>),
           status, [headers EXCEPT !["content-type"] = HTML_TYPE])

\* The ssr: false branch sending the template as it is.
shellResponse_keepsPlaceholder(tmpl, status, headers) ==
  Response(TextBody(tmpl), status, [headers EXCEPT !["content-type"] = HTML_TYPE])

\* Lines 161-167: the response of a route with ssr: false.
shellResponse(tmpl, status, headers) ==
  Response(TextBody(IF includes(tmpl, PLACEHOLDER)
                    THEN replace(tmpl, PLACEHOLDER, <<>>)
                    ELSE tmpl),
           status, [headers EXCEPT !["content-type"] = HTML_TYPE])

\* loadMatchedRouteData's for loop reaches position i of `chain` (lines
\* 248-255): the next module accessor is awaited, or, behind the last match,
\* resolve() goes on to `await options.getTemplate(url)` (line 180).
loopAt(r, chain, i, ev) ==
  /\ idx' = [idx EXCEPT ![r] = i]
  /\ IF i <= Len(chain)
     THEN /\ Goto(r, "loadModule", ev)
          /\ calls' = [calls EXCEPT ![r] = Bump(@, "module")]
     ELSE /\ Goto(r, "template", ev)
          /\ calls' = [calls EXCEPT ![r] = Bump(@, "getTemplate")]

\* A resolve() that answers a page request without a match with 404.
resolvePage_rejectsNoMatch(r) ==
  /\ pc[r] = "resolve"
  /\ classify(req[r]) = "route"
  /\ \E chain \in Chains :
       /\ matches' = [matches EXCEPT ![r] = chain]
       /\ IF Len(chain) = 0
          THEN /\ Return(r, Ev("matchRoutes", "self", Absent, NoStaging),
                         Response(TextBody(<<"Not Found">>), 404, NoHeaders))
               /\ UNCHANGED <<idx, calls>>
          ELSE /\ Goto(r, "apiModule", Ev("matchRoutes", "self", Absent, NoStaging))
               /\ calls' = [calls EXCEPT ![r] = Bump(@, "module")]
               /\ UNCHANGED idx
  /\ UNCHANGED <<cfg, staged, routeId, routeData, template, loads, settled, resolveCalls>>

\* resolve() on any other request (line 141) and maybeHandleApiRoute up to
\* its await (lines 280-289); without a leaf nothing is awaited before the
\* template (lines 153-180).
resolvePage(r) ==
  /\ pc[r] = "resolve"
  /\ classify(req[r]) = "route"
  /\ \E chain \in Chains :
       /\ matches' = [matches EXCEPT ![r] = chain]
       /\ IF Len(chain) = 0
          THEN loopAt(r, chain, 1, Ev("matchRoutes", "self", Absent, NoStaging))
          ELSE /\ Goto(r, "apiModule", Ev("matchRoutes", "self", Absent, NoStaging))
               /\ calls' = [calls EXCEPT ![r] = Bump(@, "module")]
               /\ UNCHANGED idx
  /\ UNCHANGED <<cfg, staged, routeId, routeData, template, loads, settled, resolveCalls>>

leafOf(r) == matches[r][Len(matches[r])]

\* maybeHandleApiRoute taking every request with a verb handler as an API
\* request.
shouldTreatAsApi_always(request) == TRUE

\* Lines 295-298.
shouldTreatAsApi(request) ==
  LET wantsHtml == "text/html" \in request.accept
      isMutation == request.method # "GET" /\ request.method # "HEAD"
  IN  isMutation \/ ~wantsHtml

\* maybeHandleApiRoute after `await entry.module()` (lines 289-306): call
\* the verb handler, or return null and await the module again in
\* resolveLeafRouteMeta (line 547).
apiModuleSettles(r) ==
  /\ pc[r] = "apiModule"
  /\ \/ /\ \E e \in Thrown(r) : Throw(r, "module", e)
        /\ UNCHANGED calls
     \/ \E module \in VerbExports :
          IF getMethodHandler(module, req[r].method) /\ shouldTreatAsApi(req[r])
          THEN /\ Call(r, "apiHandler", Ev("module", leafOf(r), "verb", NoStaging),
                       LeafParams(matches[r]))
               /\ calls' = [calls EXCEPT ![r] = Bump(@, "verb")]
          ELSE /\ Goto(r, "metaModule",
                       Ev("module", leafOf(r),
                          IF getMethodHandler(module, req[r].method) THEN "wants html"
                          ELSE "no handler", NoStaging))
               /\ calls' = [calls EXCEPT ![r] = Bump(@, "module")]
  /\ UNCHANGED <<cfg, staged, locals, loads, settled, resolveCalls>>

\* The verb handler settles (lines 303-306, 149-151): its Response is
\* returned as it is.  The handler was given baseEvent's setStatus and
\* setHeaders.
apiHandlerSettles(r) ==
  /\ pc[r] = "apiHandler"
  /\ \/ /\ \E e \in Thrown(r) : Throw(r, "verb", e)
        /\ UNCHANGED staged
     \/ \E name \in UserResponseNames, staging \in Stagings :
          /\ responseStatus' = [responseStatus EXCEPT ![r] = setStatus(@, staging.st)]
          /\ responseHeaders' = [responseHeaders EXCEPT ![r] = setHeaders(@, staging.hd)]
          /\ Return(r, Ev("verb", leafOf(r), name, staging), UserResponse(name))
  /\ UNCHANGED <<cfg, locals, history, resolveCalls>>

\* resolveLeafRouteMeta's await settles (lines 547-548); then lines 157-170:
\* cache header, and either the ssr: false shell or the load loop.
metaModuleSettles(r) ==
  /\ pc[r] = "metaModule"
  /\ \/ /\ \E e \in Thrown(r) : Throw(r, "module", e)
        /\ UNCHANGED <<responseHeaders, idx, calls>>
     \/ \E module \in RouteExports :
          LET leafRouteMeta == module.route
              ev == EvMeta("module", leafOf(r),
                           IF leafRouteMeta.present THEN leafRouteMeta.ssr ELSE "no route",
                           NoStaging, leafRouteMeta)
          IN  /\ responseHeaders' =
                   [responseHeaders EXCEPT ![r] = applyCacheMeta(@, leafRouteMeta)]
              /\ IF leafRouteMeta.present /\ leafRouteMeta.ssr = "false"
                 THEN /\ Goto(r, "shellTemplate", ev)
                      /\ calls' = [calls EXCEPT ![r] = Bump(@, "getTemplate")]
                      /\ UNCHANGED idx
                 ELSE loopAt(r, matches[r], 1, ev)
  /\ UNCHANGED <<cfg, responseStatus, matches, routeId, routeData, template,
                 loads, settled, resolveCalls>>

\* `await options.getTemplate(url)` of the ssr: false branch settles
\* (lines 160-167).
shellTemplateSettles(r) ==
  /\ pc[r] = "shellTemplate"
  /\ \/ /\ \E e \in Thrown(r) : Throw(r, "getTemplate", e)
        /\ UNCHANGED template
     \/ \E tmpl \in Templates :
          /\ template' = [template EXCEPT ![r] = tmpl]
          /\ Return(r, Ev("getTemplate", "", Absent, NoStaging),
                    shellResponse(tmpl, responseStatus[r], responseHeaders[r]))
  /\ UNCHANGED <<cfg, staged, matches, routeId, idx, routeData, history, resolveCalls>>

\* The module accessor awaited by the loop settles (lines 255-259): a
\* module without load is skipped, else load is called with baseEvent's
\* setters and the match's params.
loadModuleSettles(r) ==
  /\ pc[r] = "loadModule"
  /\ \/ /\ \E e \in Thrown(r) : Throw(r, "module", e)
        /\ UNCHANGED <<idx, calls, loads>>
     \/ \E module \in LoadExports :
          IF module.load
          THEN /\ Call(r, "loadCall", Ev("module", matches[r][idx[r]], "load", NoStaging),
                       MatchParams(matches[r], idx[r]))
               /\ calls' = [calls EXCEPT ![r] = Bump(@, "load")]
               /\ loads' = [loads EXCEPT ![r] = Append(@, matches[r][idx[r]])]
               /\ UNCHANGED idx
          ELSE /\ loopAt(r, matches[r], idx[r] + 1,
                         Ev("module", matches[r][idx[r]], "no load", NoStaging))
               /\ UNCHANGED loads
  /\ UNCHANGED <<cfg, staged, matches, routeId, routeData, template, settled, resolveCalls>>

\* loadMatchedRouteData's catch reporting the error and going on with the
\* next match.
loadCatch_continues(r) ==
  /\ threw' = [threw EXCEPT ![r] = "load"]
  /\ \E e \in Thrown(r) : caught' = [caught EXCEPT ![r] = e]
  /\ errorCalls' = [errorCalls EXCEPT ![r] = IF hooks.handleError THEN @ + 1 ELSE @]
  /\ given' = [given EXCEPT ![r] = IF hooks.handleError THEN EmptyParams ELSE @]
  /\ idx' = [idx EXCEPT ![r] = @ + 1]
  /\ pc' = [pc EXCEPT ![r] = IF idx[r] + 1 <= Len(matches[r]) THEN "loadModule" ELSE "template"]
  /\ calls' = [calls EXCEPT ![r] =
                 Bump(@, IF idx[r] + 1 <= Len(matches[r]) THEN "module" ELSE "getTemplate")]
  /\ last' = [last EXCEPT ![r] = Ev("load", matches[r][idx[r]], "threw", NoStaging)]
  /\ UNCHANGED <<staged, routeData, ret, outcome>>

\* The catch of loadMatchedRouteData (lines 265-268): handleError is called
\* and a plain 500 returned, which resolve() returns (lines 176-178); an
\* error thrown by handleError leaves this catch and reaches runResolve's.
loadCatch(r) ==
  /\ threw' = [threw EXCEPT ![r] = "load"]
  /\ \E e \in Thrown(r) :
       IF hooks.handleError
       THEN \/ /\ last' = [last EXCEPT ![r] = Ev("handleError", "", "returned", NoStaging)]
               /\ errorCalls' = [errorCalls EXCEPT ![r] = @ + 1]
               /\ given' = [given EXCEPT ![r] = EmptyParams]
               /\ caught' = [caught EXCEPT ![r] = e]
               /\ Deliver(r, Resolved(Response(TextBody(<<"Internal Server Error">>), 500, NoHeaders)),
                          ~hooks.handle)
            \/ \E e2 \in Thrown(r) : Contain(r, errorCalls[r] + 1, e2, ~hooks.handle)
       ELSE /\ last' = [last EXCEPT ![r] = Ev("load", matches[r][idx[r]], "threw", NoStaging)]
            /\ caught' = [caught EXCEPT ![r] = e]
            /\ UNCHANGED <<errorCalls, given>>
            /\ Deliver(r, Resolved(Response(TextBody(<<"Internal Server Error">>), 500, NoHeaders)),
                       ~hooks.handle)
  /\ UNCHANGED <<staged, idx, routeData, calls>>

\* loadSettles with responseStatus and responseHeaders declared once per
\* handler (next to routeMap, line 92) instead of once per call: setStatus and
\* setHeaders write the one variable every request reads.
loadSettles_sharedStaging(r) ==
  /\ pc[r] = "loadCall"
  /\ settled' = [settled EXCEPT ![r] = @ + 1]
  /\ \/ \E data \in DataValues, staging \in Stagings :
          /\ routeData' = [routeData EXCEPT ![r] = Append(@, <<matches[r][idx[r]], data>>)]
          /\ responseStatus' = [o \in Runs |-> setStatus(responseStatus[r], staging.st)]
          /\ responseHeaders' = [o \in Runs |-> setHeaders(responseHeaders[r], staging.hd)]
          /\ loopAt(r, matches[r], idx[r] + 1, Ev("load", matches[r][idx[r]], data, staging))
     \/ loadCatch(r)
  /\ UNCHANGED <<cfg, matches, routeId, template, loads, resolveCalls>>

\* `await mod.load(...)` of the loop settles (lines 258-268): the data is
\* stored under the route id and the loop goes on, or the catch runs.
loadSettles(r) ==
  /\ pc[r] = "loadCall"
  /\ settled' = [settled EXCEPT ![r] = @ + 1]
  /\ \/ \E data \in DataValues, staging \in Stagings :
          /\ routeData' = [routeData EXCEPT ![r] = Append(@, <<matches[r][idx[r]], data>>)]
          /\ responseStatus' = [responseStatus EXCEPT ![r] = setStatus(@, staging.st)]
          /\ responseHeaders' = [responseHeaders EXCEPT ![r] = setHeaders(@, staging.hd)]
          /\ loopAt(r, matches[r], idx[r] + 1, Ev("load", matches[r][idx[r]], data, staging))
     \/ loadCatch(r)
  /\ UNCHANGED <<cfg, matches, routeId, template, loads, resolveCalls>>

\* `await options.getTemplate(url)` settles (line 180); render is called
\* next (line 181).
templateSettles(r) ==
  /\ pc[r] = "template"
  /\ \/ /\ \E e \in Thrown(r) : Throw(r, "getTemplate", e)
        /\ UNCHANGED <<template, calls>>
     \/ \E tmpl \in Templates :
          /\ template' = [template EXCEPT ![r] = tmpl]
          /\ Goto(r, "render", Ev("getTemplate", "", Absent, NoStaging))
          /\ calls' = [calls EXCEPT ![r] = Bump(@, "render")]
  /\ UNCHANGED <<cfg, staged, matches, routeId, idx, routeData, loads, settled, resolveCalls>>

\* `await options.render(...)` settles (lines 181-195).
renderSettles(r) ==
  /\ pc[r] = "render"
  /\ \/ \E e \in Thrown(r) : Throw(r, "render", e)
     \/ \E html \in Htmls :
          Return(r, Ev("render", "", html, NoStaging),
                 pageResponse(template[r], html, responseStatus[r], responseHeaders[r]))
  /\ UNCHANGED <<cfg, staged, locals, history, resolveCalls>>

\* ------------------------------------------------------------ specification
Step(r) ==
  \/ Start(r)
  \/ HookCallsResolve(r)
  \/ HookReturns(r)
  \/ HookThrows(r)
  \/ handleDataRequest(r)
  \/ dataModuleSettles(r)
  \/ dataLoadSettles(r)
  \/ handleActionRequest(r)
  \/ actionModuleSettles(r)
  \/ actionSettles(r)
  \/ resolvePage(r)
  \/ apiModuleSettles(r)
  \/ apiHandlerSettles(r)
  \/ metaModuleSettles(r)
  \/ shellTemplateSettles(r)
  \/ loadModuleSettles(r)
  \/ loadSettles(r)
  \/ templateSettles(r)
  \/ renderSettles(r)

\* One call of the handler, from the request to the settled promise.
Next == \E r \in Runs : Step(r)

Spec == Init /\ [][Next]_vars

\* ---------------------------------------------------- event.fetch on its own
\* User code calls event.fetch(input, init): the closure of lines 494-511.
eventFetch ==
  \E input \in FetchInputs, init \in FetchInits :
    /\ fetchArgs' = [input |-> input, init |-> init]
    /\ sent' = createEventFetch(inbound, input, init)
    /\ UNCHANGED inbound

handlerVars ==
  <<hooks, ssrEnabled, req, pc, responseHeaders, responseStatus, matches, routeId, idx,
    routeData, template, calls, loads, settled, last, threw, caught,
    resolveCalls, errorCalls, given, ret, outcome>>

InitFetchOnly ==
  /\ hooks = [handle |-> FALSE, handleError |-> FALSE]
  /\ ssrEnabled = TRUE
  /\ \E q \in {x \in Requests : x.pathname = <<"page">> /\ x.method = "GET" /\ x.accept = {}
                                 /\ x.dataMarker = Absent /\ x.actionMarker = Absent} :
       InitRun(q, {})
  /\ \E request \in InboundHeaders : InitFetch(request)
  /\ NoScanYet /\ NoPreloadYet /\ NoRebuildYet

NextFetch ==
  /\ eventFetch
  /\ UNCHANGED <<handlerVars, scanVars, preloadVars, devVars>>

SpecFetch == InitFetchOnly /\ [][NextFetch]_vars

\* ------------------------------------------- page requests, ssrEnabled: false
\* Requests that are neither data nor action requests.
PageRequests == {q \in Requests : classify(q) = "route"}

\* The caller passes ssrEnabled: false next to the options of lines 45-54.
\* HandlerOptions has no such member and no line of the handler reads it.
InitSsrOff ==
  /\ hooks \in HookConfigs
  /\ ssrEnabled = FALSE
  /\ \E q \in PageRequests : InitRun(q, {1})
  /\ InitFetch([cookie |-> Absent, authorization |-> Absent])
  /\ NoScanYet /\ NoPreloadYet /\ NoRebuildYet

\* The steps of a run whose request is neither a data nor an action request.
StepPage(r) ==
  \/ Start(r)
  \/ HookCallsResolve(r)
  \/ HookReturns(r)
  \/ HookThrows(r)
  \/ resolvePage(r)
  \/ apiModuleSettles(r)
  \/ apiHandlerSettles(r)
  \/ metaModuleSettles(r)
  \/ shellTemplateSettles(r)
  \/ loadModuleSettles(r)
  \/ loadSettles(r)
  \/ templateSettles(r)
  \/ renderSettles(r)

NextSsrOff == \E r \in Runs : StepPage(r)

SpecSsrOff == InitSsrOff /\ [][NextSsrOff]_vars

\* ------------------------------------------------ two requests interleaved
\* Two calls of the one handler are in flight at once; at every await either
\* may be the next to resume.  No hooks; the requests are page requests to
\* at most one matched route, templates and data are the first of their sets.
TwoRequests ==
  {q \in PageRequests :
     /\ q.dataMarker = Absent /\ q.actionMarker = Absent
     /\ q.method \in {"GET", "POST"}
     /\ q.accept = {"text/html"}}

InitTwo ==
  /\ hooks = [handle |-> FALSE, handleError |-> FALSE]
  /\ ssrEnabled = TRUE
  /\ \E q \in TwoRequests : InitRun(q, {1, 2})
  /\ InitFetch([cookie |-> Absent, authorization |-> Absent])
  /\ NoScanYet /\ NoPreloadYet /\ NoRebuildYet

\* The environment of the two calls.
TwoEnv ==
  \A r \in Runs :
    /\ matches[r] \in {<<>>, <<"a">>}
    /\ template[r] \in {<<>>, <<"<main>", PLACEHOLDER, "</main>">>}
    /\ \A k \in DOMAIN routeData[r] : routeData[r][k][2] = "d1"
    /\ caught[r] \in {Absent, "boom1"}
    /\ last[r].meta.maxAge.kind \in {"absent", "num"}
    /\ last[r].meta.maxAge.tenths \in {0, 1205}
    /\ last[r].meta.ssr \in {"unset", "false"}
    /\ last[r].ev = "verb" => last[r].val = "ok"

StepTwo(r) ==
  \/ Start(r) /\ TwoEnv'
  \/ resolvePage(r) /\ TwoEnv'
  \/ apiModuleSettles(r) /\ TwoEnv'
  \/ apiHandlerSettles(r) /\ TwoEnv'
  \/ metaModuleSettles(r) /\ TwoEnv'
  \/ shellTemplateSettles(r) /\ TwoEnv'
  \/ loadModuleSettles(r) /\ TwoEnv'
  \/ loadSettles(r) /\ TwoEnv'
  \/ templateSettles(r) /\ TwoEnv'
  \/ renderSettles(r) /\ TwoEnv'

NextTwo == \E r \in Runs : StepTwo(r)

SpecTwo == InitTwo /\ [][NextTwo]_vars

\* ------------------------------------------------- two runs of one request
\* What a run was given and what user code did in it, the values thrown and
\* what the run made of them left out.
View(r) ==
  <<req[r], pc[r], responseHeaders[r], responseStatus[r], matches[r], routeId[r],
    idx[r], routeData[r], template[r], calls[r], loads[r], settled[r], last[r],
    threw[r], resolveCalls[r], errorCalls[r]>>

\* Requests of every class, without the search parameters.
PairRequests ==
  {q \in Requests :
     /\ q.dataMarker = Absent /\ q.actionMarker = Absent
     /\ q.pathname \in {<<"page">>, <<"_fict", "data", "a">>, <<"_fict", "data", "%">>,
                         <<"_fict", "action", "a">>}
     /\ q.method # "HEAD"
     /\ q.accept \in {{"text/html"}, {"application/json"}}}

InitPair ==
  /\ hooks \in HookConfigs
  /\ ssrEnabled = TRUE
  /\ \E q \in PairRequests : InitRun(q, {1, 2})
  /\ InitFetch([cookie |-> Absent, authorization |-> Absent])
  /\ NoScanYet /\ NoPreloadYet /\ NoRebuildYet

\* Run 1 takes a step; run 2 then takes the same step, free only in the
\* values user code throws.
NextPair ==
  \/ View(1) = View(2) /\ Step(1)
  \/ View(1) # View(2) /\ Step(2) /\ View(2)' = View(1)

SpecPair == InitPair /\ [][NextPair]_vars

\* ------------------------------------------------------- scanning a directory
\* The files a routes directory may hold, relative to it.
RouteFiles ==
  { <<"i", "n", "d", "e", "x", ".", "t", "s", "x">>,
    <<"a", ".", "t", "s">>,
    <<"a", ".", "t", "s", "x">>,
    <<"a", "/", "i", "n", "d", "e", "x", ".", "t", "s">>,
    <<"a", "/", "[", "x", "]", ".", "t", "s">>,
    <<"a", "/", "[", "y", "]", ".", "t", "s">>,
    <<"a", "/", "[", "[", "x", "]", "]", ".", "t", "s">>,
    <<"a", "/", ":", "x", ".", "t", "s">>,
    <<"a", "/", "b", ".", "t", "s">>,
    <<"a", "/", "[", ".", ".", ".", "x", "]", ".", "t", "s">>,
    <<"[", ".", ".", ".", "]", ".", "t", "s">>,
    <<"[", "x", ".", "t", "s">>,
    <<"[", "x", "]", "/", "[", "x", "]", "/", "[", "x", "]", "/", "[", "x", "]", "/", "[", "x", "]", "/",
      "[", "x", "]", "/", "[", "x", "]", "/", "[", "x", "]", "/", "[", "x", "]", "/", "[", "x", "]", ".", "t", "s">>,
    <<"_", "a", ".", "t", "s">>,
    <<".", "a", ".", "t", "s">>,
    <<"_", "b", "/", "a", ".", "t", "s">>,
    <<"a", ".", "m", "d">> }

\* What scanRoutes is called with: extensions absent or given, ignore absent
\* or a callback that answers true for one file.
ScanOptions ==
  [extensions : {<<>>, << <<".", "t", "s", "x">> >>},
   ignore : {{}, {<<"a", "/", "b", ".", "t", "s">>}}]

Directories ==
  {[exists |-> FALSE, files |-> {}]}
    \cup {[exists |-> TRUE, files |-> files] :
            files \in {S \in SUBSET RouteFiles : Cardinality(S) <= MaxFiles}}

\* The orders in which walk() may list a set of files.
walkOrders(files) ==
  {order \in [1..Cardinality(files) -> files] :
     \A i, j \in 1..Cardinality(files) : i # j => order[i] # order[j]}

\* No request handler is running.
NoRequestYet ==
  /\ hooks = [handle |-> FALSE, handleError |-> FALSE]
  /\ ssrEnabled = TRUE
  /\ \E q \in {x \in Requests : x.pathname = <<"page">> /\ x.method = "GET" /\ x.accept = {}
                                 /\ x.dataMarker = Absent /\ x.actionMarker = Absent} :
       InitRun(q, {})
  /\ InitFetch([cookie |-> Absent, authorization |-> Absent])

InitScan ==
  /\ NoRequestYet /\ NoPreloadYet /\ NoRebuildYet
  /\ routesDir \in Directories
  /\ scanOptions \in ScanOptions
  /\ scanned = <<>>
  /\ asserted = <<>>

\* A caller awaits scanRoutes(options).
scan ==
  /\ scanned = <<>>
  /\ \E walked \in walkOrders(routesDir.files) :
       scanned' = <<scanRoutes(scanOptions, routesDir.exists, walked)>>
  /\ UNCHANGED <<routesDir, scanOptions, asserted, handlerVars, fetchVars, preloadVars, devVars>>

\* The caller hands the diagnostics of the scan to assertNoRouteErrors.
assertScanned ==
  /\ scanned # <<>>
  /\ asserted = <<>>
  /\ asserted' = <<assertNoRouteErrors(scanned[1].diagnostics)>>
  /\ UNCHANGED <<routesDir, scanOptions, scanned, handlerVars, fetchVars, preloadVars, devVars>>

NextScan ==
  \/ scan
  \/ assertScanned

SpecScan == InitScan /\ [][NextScan]_vars

\* ------------------------------------------------ createFileRoutes: preload
\* What options.fetchData may be: false, a function, or absent.
FetchDataOptions == {"false", "function", Absent}

\* A preload that never marks the initial data as consumed.
preload_noFlag(id, consumed, data, fetcher) ==
  IF id \in data
  THEN [from |-> "initialData", consumed |-> consumed]
  ELSE IF fetcher = "false" THEN [from |-> "undefined", consumed |-> consumed]
  ELSE IF fetcher = "function" THEN [from |-> "fetchData", consumed |-> consumed]
  ELSE [from |-> "fetchRouteData", consumed |-> consumed]

\* The preload closure of one route definition, called with the closure's
\* initialDataConsumed: where the result comes from, and the flag afterwards.
preload(id, consumed, data, fetcher) ==
  IF ~consumed /\ id \in data
  THEN [from |-> "initialData", consumed |-> TRUE]
  ELSE IF fetcher = "false" THEN [from |-> "undefined", consumed |-> consumed]
  ELSE IF fetcher = "function" THEN [from |-> "fetchData", consumed |-> consumed]
  ELSE [from |-> "fetchRouteData", consumed |-> consumed]

\* createFileRoutes(routes, options) has returned its route definitions.
InitPreload ==
  /\ NoRequestYet /\ NoScanYet /\ NoRebuildYet
  /\ initialData \in SUBSET FileRouteIds
  /\ fetchData \in FetchDataOptions
  /\ initialDataConsumed = [id \in FileRouteIds |-> FALSE]
  /\ preloaded = <<>>

\* The router calls the preload of a route definition.
callPreload ==
  /\ Len(preloaded) < MaxPreloads
  /\ \E id \in FileRouteIds :
       LET result == preload(id, initialDataConsumed[id], initialData, fetchData)
       IN /\ preloaded' = Append(preloaded, [key |-> id, from |-> result.from])
          /\ initialDataConsumed' = [initialDataConsumed EXCEPT ![id] = result.consumed]
  /\ UNCHANGED <<initialData, fetchData, handlerVars, fetchVars, scanVars, devVars>>

NextPreload == callPreload

SpecPreload == InitPreload /\ [][NextPreload]_vars
\* ------------------------------------------------- dev plugin: rebuildRoutes
\* The route files the dev server's routes directory may hold.
DevFiles ==
  { <<"a", ".", "t", "s">>,
    <<"a", "/", "[", "x", "]", ".", "t", "s">>,
    <<"a", "/", "[", "y", "]", ".", "t", "s">> }

\* generateRoutesModuleCode: one item per route, with its id, its path and
\* the import of its file for the target.
generateRoutesModuleCode(routes, target) ==
  [i \in 1..Len(routes) |->
     [id |-> routes[i].id, path |-> routes[i].routePath,
      module |-> [file |-> routes[i].file, target |-> target]]]

\* What rebuildRoutes assigns after a scan that passed assertNoRouteErrors
\* (lines 57-69).
published(result) ==
  [routes |-> result.routes,
   clientRoutesModule |-> generateRoutesModuleCode(result.routes, "client"),
   serverRoutesModule |-> generateRoutesModuleCode(result.routes, "server")]

\* The scans a rebuildRoutes call may get for the files its walk listed.
scansOf(files) ==
  {scanRoutes([extensions |-> <<>>, ignore |-> {}], TRUE, walked) :
     walked \in walkOrders(files)}

\* configureServer has awaited its own rebuildRoutes and set up the watcher.
InitDev ==
  /\ NoRequestYet /\ NoPreloadYet
  /\ scanOptions = [extensions |-> <<>>, ignore |-> {}]
  /\ scanned = <<>>
  /\ asserted = <<>>
  /\ rebuilds = <<>>
  /\ \E files \in SUBSET DevFiles :
       /\ routesDir = [exists |-> TRUE, files |-> files]
       /\ \E result \in scansOf(files) :
            /\ ~assertNoRouteErrors(result.diagnostics).threw
            /\ plugin = published(result)

\* A file below routesDir changes; the watcher's callback calls
\* rebuildRoutes, which awaits scanRoutes (lines 78-85 and 49-54).
watcherEvent ==
  /\ Len(rebuilds) < MaxRebuilds
  /\ \E files \in SUBSET DevFiles :
       /\ files # routesDir.files
       /\ routesDir' = [routesDir EXCEPT !.files = files]
  /\ rebuilds' = Append(rebuilds, [pc |-> "scanning", walked |-> {}])
  /\ UNCHANGED <<plugin, scanOptions, scanned, asserted, handlerVars, fetchVars, preloadVars>>

\* The directory walk of a rebuildRoutes call reads the tree as it is now.
walkSettles(k) ==
  /\ rebuilds[k].pc = "scanning"
  /\ rebuilds' = [rebuilds EXCEPT ![k] = [pc |-> "walked", walked |-> routesDir.files]]
  /\ UNCHANGED <<plugin, scanVars, handlerVars, fetchVars, preloadVars>>

\* `await scanRoutes(...)` of a rebuildRoutes call settles (lines 54-69):
\* assertNoRouteErrors throws, or routes and the route modules are assigned.
rebuildSettles(k) ==
  /\ rebuilds[k].pc = "walked"
  /\ \E result \in scansOf(rebuilds[k].walked) :
       IF assertNoRouteErrors(result.diagnostics).threw
       THEN /\ rebuilds' = [rebuilds EXCEPT ![k].pc = "failed"]
            /\ UNCHANGED plugin
       ELSE /\ rebuilds' = [rebuilds EXCEPT ![k].pc = "published"]
            /\ plugin' = published(result)
  /\ UNCHANGED <<scanVars, handlerVars, fetchVars, preloadVars>>

NextDev ==
  \/ watcherEvent
  \/ \E k \in 1..Len(rebuilds) : walkSettles(k)
  \/ \E k \in 1..Len(rebuilds) : rebuildSettles(k)

SpecDev == InitDev /\ [][NextDev]_vars

TypeOK ==
  /\ hooks \in HookConfigs
  /\ \A r \in Runs : req[r] \in Requests /\ matches[r] \in Chains

\* -------------------------------------------------------------- properties
\* runResolve() has settled in run r, and what it settled with: the handler's
\* own promise without a handle hook, the promise resolve() gave the hook
\* otherwise.
resolveSettled(r) == IF hooks.handle THEN pc[r] = "hookPost" ELSE pc[r] = "done"
resolved(r) == IF hooks.handle THEN ret[r] ELSE outcome[r]

\* The request classes, read off the url.
hasDataMark(q) == startsWith(q.pathname, DATA_PREFIX) \/ q.dataMarker # Absent
hasActionMark(q) == startsWith(q.pathname, ACTION_PREFIX) \/ q.actionMarker # Absent

\* C1: whatever user code does, the handleError hook throwing included, the
\* handler's promise resolves to a Response and never rejects.
C1_AlwaysResponds ==
  \A r \in Runs : pc[r] = "done" => outcome[r].kind = "response"

\* C2: resolve() takes one path, chosen in the order data > action > API >
\* page.  A request with the data prefix or marker only ever runs the data
\* path (no action, verb handler, template or render call; a typed data
\* answer), whatever else it carries; otherwise one with the action prefix or
\* marker only ever runs the action path; any other request runs the API
\* check, and never both a verb handler and a load, template or render call.
C2_Precedence ==
  \A r \in Runs :
    LET q == req[r]
        c == calls[r]
        answered == resolveSettled(r) /\ resolved(r).kind = "response"
        body == resolved(r).response.body
    IN  /\ pc[r] \in {"dataModule", "dataLoad"} => hasDataMark(q)
        /\ pc[r] \in {"actionModule", "actionCall"} => ~hasDataMark(q) /\ hasActionMark(q)
        /\ pc[r] \in {"apiModule", "apiHandler", "metaModule", "shellTemplate",
                      "loadModule", "loadCall", "template", "render"}
             => ~hasDataMark(q) /\ ~hasActionMark(q)
        /\ hasDataMark(q) =>
             /\ c["action"] = 0 /\ c["verb"] = 0 /\ c["getTemplate"] = 0 /\ c["render"] = 0
             /\ answered => body.type = "data"
        /\ ~hasDataMark(q) /\ hasActionMark(q) =>
             /\ c["load"] = 0 /\ c["getTemplate"] = 0 /\ c["render"] = 0
             /\ answered => body.type = "action" \/ last[r].ev = "action"
        /\ ~hasDataMark(q) /\ ~hasActionMark(q) =>
             /\ c["action"] = 0
             /\ c["verb"] > 0 => c["load"] = 0 /\ c["getTemplate"] = 0 /\ c["render"] = 0
             /\ answered => body.type = Absent

\* A request with the action prefix and the data marker has had its load
\* called on the data path.
C2_Witness ==
  /\ startsWith(req[1].pathname, ACTION_PREFIX)
  /\ req[1].dataMarker = "a"
  /\ resolveSettled(1)
  /\ last[1].ev = "load"
  /\ resolved(1).response.body.type = "data"

\* The route id a data request resolves to, given the leaf matched.
C3_id(r) ==
  LET requested == getRequestedRouteId(req[r], DATA_PREFIX)
  IN  IF requested.defined THEN requested.id ELSE matches[r][Len(matches[r])]

\* C3: the outcomes of a data request in which nothing threw.  No match: 404
\* no_match, no module accessor and no load called.  Id not in the route
\* table: 404 unknown_route, no load called.  Id equal to the leaf's and no
\* load export: 200 with data null.  Id equal to the leaf's and load returned
\* v: data v, status 200 or the last setStatus argument, load called once.
C3_DataOutcomes ==
  \A r \in Runs :
    (hasDataMark(req[r]) /\ resolveSettled(r) /\ threw[r] = Absent) =>
      LET res == resolved(r).response
          c == calls[r]
      IN  /\ resolved(r).kind = "response"
          /\ IF matches[r] = <<>>
             THEN /\ res = json(JsonBody("data", "no_match", Absent, Absent, Absent), 404, NoHeaders)
                  /\ c["module"] = 0 /\ c["load"] = 0
             ELSE LET id == C3_id(r)
                      leafId == matches[r][Len(matches[r])]
                  IN  /\ id \notin RouteIds =>
                           /\ res.status = 404
                           /\ res.body.type = "data" /\ res.body.error = "unknown_route"
                           /\ c["module"] = 0 /\ c["load"] = 0
                      /\ id = leafId => last[r].ev \in {"module", "load"}
                      /\ id = leafId /\ last[r].ev = "module" =>
                           /\ res = json(JsonBody("data", Absent, id, Absent, "null"), 200, NoHeaders)
                           /\ c["load"] = 0
                      /\ id = leafId /\ last[r].ev = "load" =>
                           /\ res.body = JsonBody("data", Absent, id, Absent, last[r].val)
                           /\ last[r].val \in DataValues
                           /\ res.status = IF last[r].st = <<>> THEN 200
                                           ELSE last[r].st[Len(last[r].st)]
                           /\ c["load"] = 1 /\ loads[r] = <<id>>

\* A data request's load has returned after calling setStatus, and the
\* answer carries that status and the data.
C3_Witness ==
  /\ hasDataMark(req[1])
  /\ resolveSettled(1)
  /\ last[1].ev = "load"
  /\ last[1].st # <<>>
  /\ resolved(1).response.status = 201
  /\ resolved(1).response.body.data = "d2"

\* A data or action request whose target matched a route and which names a
\* route id other than the leaf's; resolve() has answered it.
C4_prefix(r) == IF hasDataMark(req[r]) THEN DATA_PREFIX ELSE ACTION_PREFIX
C4_type(r) == IF hasDataMark(req[r]) THEN "data" ELSE "action"
C4_requested(r) == getRequestedRouteId(req[r], C4_prefix(r))
C4_leafId(r) == matches[r][Len(matches[r])]

C4_explicitOther(r) ==
  /\ hasDataMark(req[r]) \/ hasActionMark(req[r])
  /\ resolveSettled(r)
  /\ threw[r] = Absent
  /\ matches[r] # <<>>
  /\ C4_requested(r).defined
  /\ C4_requested(r).id # C4_leafId(r)

C4_nothingInvoked(r) ==
  calls[r]["load"] = 0 /\ calls[r]["action"] = 0 /\ calls[r]["verb"] = 0

\* C4 as stated: an explicit route id that differs from the leaf-matched id
\* always gives 400 route_mismatch, with neither load nor action invoked.
C4_AlwaysMismatch ==
  \A r \in Runs :
    C4_explicitOther(r) =>
      /\ resolved(r).response.status = 400
      /\ resolved(r).response.body.error = "route_mismatch"
      /\ C4_nothingInvoked(r)

\* C4, amended: an explicit route id that differs from the leaf-matched id
\* gives 400 route_mismatch (naming both ids) when it is an id of the route
\* table and 404 unknown_route when it is not; in both cases neither load nor
\* action (nor a verb handler standing in for it) is invoked.
C4_MismatchOrUnknown ==
  \A r \in Runs :
    C4_explicitOther(r) =>
      LET id == C4_requested(r).id
          res == resolved(r).response
      IN  /\ resolved(r).kind = "response"
          /\ res.body.type = C4_type(r)
          /\ C4_nothingInvoked(r)
          /\ calls[r]["module"] = 0
          /\ IF id \in RouteIds
             THEN /\ res.status = 400
                  /\ res.body.error = "route_mismatch"
                  /\ res.body.routeId = id
                  /\ res.body.leafId = C4_leafId(r)
             ELSE /\ res.status = 404
                  /\ res.body.error = "unknown_route"

\* An action request names route "a" while its target's leaf is "a/b", and
\* has been answered 400.
C4_Witness ==
  /\ ~hasDataMark(req[1])
  /\ C4_explicitOther(1)
  /\ C4_requested(1).id = "a"
  /\ C4_leafId(1) = "a/b"
  /\ resolved(1).response.status = 400

\* C5: without a handle hook, when user route code throws (load on the data
\* path, action, verb handler, load on the page path, getTemplate, render)
\* and a response is returned, handleError was invoked exactly once for the
\* request; for a throwing data load the response is 500 with the JSON body
\* {type:'data',error:'internal_error'}.
C5_HandleErrorOnce ==
  \A r \in Runs :
    ( /\ ~hooks.handle
      /\ hooks.handleError
      /\ pc[r] = "done"
      /\ outcome[r].kind = "response"
      /\ threw[r] \in {"load", "action", "verb", "getTemplate", "render"} ) =>
      /\ errorCalls[r] = 1
      /\ hasDataMark(req[r]) /\ threw[r] = "load" =>
           outcome[r].response =
             json(JsonBody("data", "internal_error", Absent, Absent, Absent), 500, NoHeaders)

\* The 500 response each request class is to get.
C6_expected(q) ==
  IF hasDataMark(q)
  THEN Response(JsonBody("data", "internal_error", Absent, Absent, Absent), 500,
                [NoHeaders EXCEPT !["content-type"] = JSON_TYPE])
  ELSE IF hasActionMark(q)
  THEN Response(JsonBody("action", "internal_error", Absent, Absent, Absent), 500,
                [NoHeaders EXCEPT !["content-type"] = JSON_TYPE])
  ELSE IF "application/json" \in q.accept \/ q.method \notin {"GET", "HEAD"}
  THEN Response(JsonBody(Absent, "internal_error", Absent, Absent, Absent), 500,
                [NoHeaders EXCEPT !["content-type"] = JSON_TYPE])
  ELSE Response(TextBody(<<"Internal Server Error">>), 500, NoHeaders)

\* C6: the response a catch block of the handler produces for an exception,
\* in whichever branch it was raised, is the 500 of the request's class:
\* typed JSON for data and action requests, bare JSON for other requests
\* that accept application/json or are not GET/HEAD, plain text otherwise.
C6_ErrorShape ==
  \A r \in Runs :
    ( /\ pc[r] = "done"
      /\ outcome[r].kind = "response"
      /\ threw[r] # Absent
      /\ ~hooks.handle \/ threw[r] = "handle" ) =>
      outcome[r].response = C6_expected(req[r])

C8_sameOrigin(input) == input \in {"/api/session", "http://local/api"}

\* C8: a call of event.fetch with a cross-origin target hands the global
\* fetch neither the inbound cookie nor the inbound authorization header:
\* it carries exactly the headers the caller passed.
C8_NoCredentialsCrossOrigin ==
  (fetchArgs.input # Absent /\ ~C8_sameOrigin(fetchArgs.input)) =>
    /\ sent.input = fetchArgs.input
    /\ sent.init.cookie = fetchArgs.init.cookie
    /\ sent.init.authorization = fetchArgs.init.authorization
    /\ sent.init.xRequestId = fetchArgs.init.xRequestId

\* Positions of the matched chain whose load was invoked, in chain order.
C9_inChainOrder(r) ==
  \E pos \in [1..Len(loads[r]) -> 1..Len(matches[r])] :
    /\ \A k \in 1..Len(loads[r]) : matches[r][pos[k]] = loads[r][k]
    /\ \A j, k \in 1..Len(loads[r]) : j < k => pos[j] < pos[k]
    /\ \A k \in 1..Len(loads[r]) : pos[k] <= idx[r]

C10_ShellOnly ==
  \A r \in Runs :
    /\ (last[r].ev = "module" /\ last[r].val = "false") => pc[r] = "shellTemplate"
    /\ pc[r] = "shellTemplate" =>
         /\ calls[r]["load"] = 0 /\ calls[r]["render"] = 0
         /\ calls[r]["getTemplate"] = 1
    /\ (resolveSettled(r) /\ last[r].ev = "getTemplate") =>
         LET res == resolved(r).response
             tmpl == template[r]
         IN  /\ resolved(r).kind = "response"
             /\ calls[r]["load"] = 0 /\ calls[r]["render"] = 0
             /\ loads[r] = <<>>
             /\ res.status = responseStatus[r]
             /\ res.headers = [responseHeaders[r] EXCEPT !["content-type"] = HTML_TYPE]
             /\ res.body.kind = "text"
             /\ IF \E i \in DOMAIN tmpl : tmpl[i] = PLACEHOLDER
                THEN \E i \in DOMAIN tmpl :
                       /\ tmpl[i] = PLACEHOLDER
                       /\ \A j \in 1..(i - 1) : tmpl[j] # PLACEHOLDER
                       /\ res.body.text = SubSeq(tmpl, 1, i - 1) \o SubSeq(tmpl, i + 1, Len(tmpl))
                ELSE res.body.text = tmpl

\* A route with ssr: false was answered with the shell of a template that
\* has the placeholder, under a status the handle hook had staged.
C10_Witness ==
  /\ resolveSettled(1)
  /\ last[1].ev = "getTemplate"
  /\ template[1] = <<"<main>", PLACEHOLDER, "</main>">>
  /\ resolved(1).response.status = 404
  /\ resolved(1).response.body.text = <<"<main>", "</main>">>

\* C11: with the global option ssrEnabled: false, a page request (one that no
\* verb handler answers) has no load and no render invoked, whatever the
\* route's own metadata, and when nothing throws the response is the template
\* with its placeholder replaced by the empty string, under status 200
\* unless user code staged another.
C11_GlobalSsrOff ==
  \A r \in Runs :
    (~ssrEnabled /\ pc[r] # "off" /\ classify(req[r]) = "route" /\ calls[r]["verb"] = 0) =>
      /\ calls[r]["load"] = 0
      /\ calls[r]["render"] = 0
      /\ (resolveSettled(r) /\ threw[r] = Absent /\ resolved(r).kind = "response") =>
            resolved(r).response =
              shellResponse(template[r], responseStatus[r], responseHeaders[r])

\* C12: on a request that is neither data nor action, once the leaf's module
\* is known to export a handler for the request's verb: if the method is not
\* GET/HEAD or Accept lacks text/html, that handler is invoked, once, with the
\* leaf match's params, no load, getTemplate or render is invoked, and the
\* Response it returns is resolve()'s result as it is, whatever status and
\* headers were staged; if the method is GET and Accept has text/html, the
\* handler is not invoked and the request goes down the page path, whose
\* answer is an HTML page.
C12_ApiRoute ==
  \A r \in Runs :
    LET q == req[r]
        c == calls[r]
        html == q.method = "GET" /\ "text/html" \in q.accept
    IN  (~hasDataMark(q) /\ ~hasActionMark(q)) =>
          /\ c["verb"] <= 1
          /\ (last[r].ev = "module" /\ last[r].val = "verb") =>
               /\ ~html
               /\ pc[r] = "apiHandler"
               /\ c["verb"] = 1
               /\ given[r] = LeafParams(matches[r])
          /\ c["verb"] = 1 =>
               /\ ~html
               /\ c["load"] = 0 /\ c["getTemplate"] = 0 /\ c["render"] = 0
          /\ (last[r].ev = "module" /\ last[r].val = "wants html") =>
               /\ html
               /\ pc[r] = "metaModule"
               /\ c["verb"] = 0
          /\ html => c["verb"] = 0 /\ pc[r] # "apiHandler"
          /\ (resolveSettled(r) /\ last[r].ev = "verb") =>
               /\ resolved(r) = Resolved(UserResponse(last[r].val))
               /\ c["verb"] = 1
          /\ (html /\ resolveSettled(r) /\ threw[r] = Absent) =>
               /\ resolved(r).kind = "response"
               /\ resolved(r).response.headers["content-type"] = HTML_TYPE
               /\ last[r].ev \in {"render", "getTemplate"}

\* A POST was answered by the leaf's verb handler, which had staged a status
\* and a header through its event: the answer is the handler's own 410.
C12_Witness ==
  /\ req[1].method = "POST"
  /\ ~hasDataMark(req[1]) /\ ~hasActionMark(req[1])
  /\ resolveSettled(1)
  /\ last[1].ev = "verb"
  /\ responseStatus[1] = 201
  /\ responseHeaders[1]["cache-control"] = "no-store"
  /\ resolved(1).response = UserResponse("gone")

\* C13: an action request to a known route that is the leaf matched calls
\* module.action when the module has one (whether or not it has a handler for
\* the verb), else the handler of the request's verb, once; with neither the
\* answer is 200 {type:'action',routeId,data:null}.  The result becomes the
\* response so: a Response is returned as it is; a tagged redirect gives an
\* empty body, its status and its location; an untagged object with a string
\* location gives an empty body, its location and its status, 302 when it
\* has none; any other value v gives JSON {type:'action',routeId,data:v}.
C13_ActionResults ==
  \A r \in Runs :
    LET q == req[r]
        c == calls[r]
        res == resolved(r).response
    IN  (~hasDataMark(q) /\ hasActionMark(q)) =>
          /\ c["action"] + c["verb"] <= 1
          /\ (c["action"] + c["verb"] = 1) =>
               /\ routeId[r] \in RouteIds
               /\ routeId[r] = matches[r][Len(matches[r])]
          /\ (last[r].ev = "module" /\ last[r].val \in {"action", "action+verb"}) =>
               pc[r] = "actionCall" /\ c["action"] = 1 /\ c["verb"] = 0
          /\ (last[r].ev = "module" /\ last[r].val = "verb") =>
               /\ pc[r] = "actionCall" /\ c["action"] = 0 /\ c["verb"] = 1
               /\ q.method \in {"GET", "POST"}
          /\ (last[r].ev = "module" /\ last[r].val = "none") =>
               /\ resolveSettled(r)
               /\ c["action"] = 0 /\ c["verb"] = 0
               /\ resolved(r) =
                    Resolved(Response(JsonBody("action", Absent, routeId[r], Absent, "null"), 200,
                                      [NoHeaders EXCEPT !["content-type"] = JSON_TYPE]))
          /\ (resolveSettled(r) /\ last[r].ev = "action") =>
               LET result == ActionResult(last[r].val)
               IN  /\ resolved(r).kind = "response"
                   /\ IF result.isResponse
                      THEN res = UserResponse("ok")
                      ELSE IF result.location # Absent
                      THEN /\ res.body = NullBody
                           /\ res.headers["location"] = result.location
                           /\ res.status =
                                IF result.type # "redirect" /\ result.status = 0
                                THEN 302 ELSE result.status
                      ELSE /\ res.body = JsonBody("action", Absent, routeId[r], Absent, result.data)
                           /\ res.headers["content-type"] = JSON_TYPE

\* A POST action request to a module without action but with a POST handler
\* was answered with the 307 redirect of the untagged object the handler
\* returned.
C13_Witness ==
  /\ ~hasDataMark(req[1]) /\ hasActionMark(req[1])
  /\ resolveSettled(1)
  /\ last[1].ev = "action" /\ last[1].val = "shape307"
  /\ calls[1]["verb"] = 1
  /\ resolved(1).response.status = 307
  /\ resolved(1).response.headers["location"] = "/login"

\* C14: every response the action path makes of a result it takes for a
\* redirect, tagged or not, has a status in 300..399 and a location header
\* equal to the result's location.
C14_RedirectIs3xx ==
  \A r \in Runs :
    ( /\ ~hasDataMark(req[r]) /\ hasActionMark(req[r])
      /\ resolveSettled(r)
      /\ last[r].ev = "action"
      /\ ~ActionResult(last[r].val).isResponse
      /\ isRedirectResult(ActionResult(last[r].val)) \/ isRedirectShape(ActionResult(last[r].val)) ) =>
      /\ resolved(r).kind = "response"
      /\ resolved(r).response.status \in 300..399
      /\ resolved(r).response.headers["location"] = ActionResult(last[r].val).location

\* Route code: everything the handler calls but the hooks.
C15_routeCalls(r) ==
  calls[r]["module"] + calls[r]["load"] + calls[r]["action"] + calls[r]["verb"]
    + calls[r]["getTemplate"] + calls[r]["render"]

\* With a handle hook no route code runs before the hook calls resolve(),
\* and none at all if it never does.
C15_nothingBeforeResolve(r) ==
  /\ pc[r] \in {"start", "hookPre"} => C15_routeCalls(r) = 0
  /\ resolveCalls[r] = 0 => C15_routeCalls(r) = 0 /\ loads[r] = <<>>

\* The handler's result is the Response the hook returned: its own, the one
\* resolve() gave it, or that one with the header the hook added.
C15_resultIsHooks(r) ==
  (pc[r] = "done" /\ last[r].ev = "handle") =>
    /\ outcome[r].kind = "response"
    /\ last[r].val = "own" => outcome[r].response = UserResponse("gone")
    /\ last[r].val = "same" => outcome[r] = ret[r]
    /\ last[r].val = "x-hook" =>
         /\ outcome[r].response.headers["x-hook"] = "yes"
         /\ outcome[r].response.status = ret[r].response.status
         /\ outcome[r].response.body = ret[r].response.body
         /\ \A h \in HeaderNames \ {"x-hook"} :
              outcome[r].response.headers[h] = ret[r].response.headers[h]

\* The hook threw: handleError was invoked and the handler answers with the
\* 500 of the request's class.
C15_hookThrowContained(r) ==
  (pc[r] = "done" /\ threw[r] = "handle") =>
    /\ hooks.handleError => errorCalls[r] >= 1
    /\ outcome[r] = Resolved(C6_expected(req[r]))

\* C15: with a handle hook configured, no route code (module accessor, load,
\* action, verb handler, getTemplate, render) runs before the hook calls
\* resolve(), and none at all if it never calls it; the handler's result is
\* exactly the Response the hook returns; if the hook throws, handleError is
\* invoked and the 500 of the request's class is returned.
C15_HandleHook ==
  \A r \in Runs :
    hooks.handle =>
      /\ C15_nothingBeforeResolve(r)
      /\ C15_resultIsHooks(r)
      /\ C15_hookThrowContained(r)

\* The value a setHeaders call of user code gives header h.
C16_staged(h) == setHeaders(NoHeaders, h)[h]

\* C16: in a page response, a header that a setHeaders call made during load
\* set, and that a lower-priority source sets too (cache-control from the
\* route's metadata, the default content-type), carries the value given to
\* setHeaders: the value is staged when the load returns and is the one the
\* rendered page's response has.
C16_SetHeadersWin ==
  \A r \in Runs :
    (~hasDataMark(req[r]) /\ ~hasActionMark(req[r])) =>
      /\ (last[r].ev = "load" /\ last[r].hd \in {"cache-control", "content-type"}) =>
           responseHeaders[r][last[r].hd] = C16_staged(last[r].hd)
      /\ (resolveSettled(r) /\ last[r].ev = "render" /\ resolved(r).kind = "response") =>
           \A h \in {"cache-control", "content-type"} :
             responseHeaders[r][h] = C16_staged(h) =>
               resolved(r).response.headers[h] = C16_staged(h)

\* floor(max(0, m)) for m given in tenths.
C17_N(tenths) ==
  IF tenths < 0 THEN 0
  ELSE CHOOSE n \in 0..1000 : 10 * n <= tenths /\ tenths < 10 * (n + 1)

\* The cache-control the route's metadata asks for, Absent when maxAge is
\* missing or not a finite number.
C17_header(meta) ==
  IF meta.present /\ meta.maxAge.kind = "num"
  THEN "public, max-age=" \o ToString(C17_N(meta.maxAge.tenths))
  ELSE Absent

C17_computed == {"public, max-age=" \o ToString(n) : n \in 0..1000}

\* Once resolveLeafRouteMeta has given the leaf's route export, the staged
\* cache-control is the one it asks for, none when it asks for none; a
\* successful page (rendered or shell) carries the staged cache-control;
\* verb handler, data, action and 500 responses carry no computed one.
C17_states(r) ==
  LET page == ~hasDataMark(req[r]) /\ ~hasActionMark(req[r])
      res == resolved(r).response
  IN  /\ (page /\ last[r].ev = "module" /\ last[r].val \in {"no route", "unset", "true", "false"}) =>
           responseHeaders[r]["cache-control"] = C17_header(last[r].meta)
      /\ (page /\ resolveSettled(r) /\ threw[r] = Absent /\ last[r].ev \in {"render", "getTemplate"}) =>
           /\ resolved(r).kind = "response"
           /\ res.headers["cache-control"] = responseHeaders[r]["cache-control"]
      /\ (resolveSettled(r) /\ resolved(r).kind = "response"
            /\ (~page \/ threw[r] # Absent \/ last[r].ev = "verb")) =>
           res.headers["cache-control"] \notin C17_computed
      /\ (pc[r] = "done" /\ outcome[r].kind = "response" /\ threw[r] # Absent) =>
           outcome[r].response.headers["cache-control"] = Absent

\* The staged cache-control changes only when resolveLeafRouteMeta's module
\* settles or when a load that called setHeaders with one returns.
C17_steps(r) ==
  responseHeaders'[r]["cache-control"] # responseHeaders[r]["cache-control"] =>
    \/ pc[r] = "metaModule"
    \/ last'[r].ev \in {"load", "verb"} /\ last'[r].hd = "cache-control"

C18_LeafParams ==
  \A r \in Runs :
    (given[r] # NoEvent /\ matches[r] # <<>>) => given[r] = LeafParams(matches[r])

\* Everything the handler holds for request r.
C19_own(r) ==
  <<req[r], pc[r], responseHeaders[r], responseStatus[r], matches[r], routeId[r], idx[r],
    routeData[r], template[r], calls[r], loads[r], settled[r], last[r], threw[r], caught[r],
    resolveCalls[r], errorCalls[r], given[r], ret[r], outcome[r]>>

\* A response is made of the request's own template, staged status and
\* staged headers, and the status and headers staged are those the
\* request's own user code asked for.
C19_states(r) ==
  /\ (pc[r] = "done" /\ last[r].ev = "render") =>
       outcome[r] = Resolved(pageResponse(template[r], last[r].val,
                                          responseStatus[r], responseHeaders[r]))
  /\ (pc[r] = "done" /\ last[r].ev = "getTemplate") =>
       outcome[r] = Resolved(shellResponse(template[r], responseStatus[r], responseHeaders[r]))
  /\ (pc[r] = "done" /\ last[r].ev = "verb") => outcome[r] = Resolved(UserResponse(last[r].val))
  /\ last[r].ev \in {"load", "verb"} =>
       /\ last[r].st # <<>> => responseStatus[r] = last[r].st[Len(last[r].st)]
       /\ last[r].hd # "none" => responseHeaders[r][last[r].hd] = C16_staged(last[r].hd)
  /\ calls[r]["load"] = 0 /\ calls[r]["verb"] = 0 =>
       /\ responseStatus[r] = 200
       /\ \A h \in HeaderNames \ {"cache-control"} : responseHeaders[r][h] = Absent

configuredExtensions ==
  LET exts == IF Len(scanOptions.extensions) # 0 THEN scanOptions.extensions
              ELSE DEFAULT_EXTENSIONS
  IN {exts[i] : i \in 1..Len(exts)}

\* The files of the directory that have a configured extension and a base
\* name starting with neither '_' nor '.'.
C20_routeFiles ==
  {file \in routesDir.files :
     /\ extname(file) \in configuredExtensions
     /\ basename(file)[1] \notin {"_", "."}}

\* No two of them yield the same routePath or the same signature.
C20_noTwoAlike ==
  \A f, g \in C20_routeFiles :
    f # g => /\ toRecord(f).routePath # toRecord(g).routePath
             /\ toRecord(f).signature # toRecord(g).signature

\* The scan gave no error, exactly one route for every file of `files` and
\* no other route, and ids that are pairwise distinct.
C20_clean(files) ==
  LET result == scanned[1]
      routes == result.routes
  IN /\ \A d \in 1..Len(result.diagnostics) : result.diagnostics[d].level # "error"
     /\ Len(routes) = Cardinality(files)
     /\ \A file \in files : Cardinality({i \in 1..Len(routes) : routes[i].file = file}) = 1
     /\ \A i, j \in 1..Len(routes) : i # j => routes[i].id # routes[j].id

\* C20, as stated: for every set of route files in which no two files yield
\* the same routePath or the same signature, scanRoutes returns no error-level
\* diagnostic, exactly one route per file that has a configured extension and
\* a base name starting with neither '_' nor '.', and pairwise distinct ids.
C20_OneRoutePerFile ==
  (scanned # <<>> /\ routesDir.exists /\ C20_noTwoAlike) => C20_clean(C20_routeFiles)

\* C20, amended: the same, with one route per such file that options.ignore,
\* when the caller passes it, does not answer true for.
C20_OneRoutePerKeptFile ==
  (scanned # <<>> /\ routesDir.exists /\ C20_noTwoAlike)
    => C20_clean(C20_routeFiles \ scanOptions.ignore)

\* A scan of a directory free of conflicts that holds a route file, a file
\* the scanner skips and a file options.ignore excludes.
C20_Witness ==
  /\ scanned # <<>> /\ routesDir.exists /\ C20_noTwoAlike
  /\ Len(scanned[1].routes) = 1
  /\ routesDir.files \ C20_routeFiles # {}
  /\ C20_routeFiles \cap scanOptions.ignore # {}

\* Two segment lists differ at most in the names of their parameters.
sameButNames(left, right) ==
  /\ Len(left) = Len(right)
  /\ \A i \in 1..Len(left) :
       /\ left[i].kind = right[i].kind
       /\ left[i].value = right[i].value

\* The error diagnostics of a scan result that carry the given text.
errorsOf(result, text) ==
  SelectSeq(result.diagnostics,
            LAMBDA d : d.level = "error" /\ d.message.text = text)

\* The positions of the routes of a result that share the given field value.
groupOf(result, field, value) ==
  {i \in 1..Len(result.routes) : result.routes[i][field] = value}

\* Exactly one diagnostic with the text is about the group with this value of
\* the field, and it names the id of every route of the group.
oneNamingAll(result, text, field, value) ==
  LET about == SelectSeq(errorsOf(result, text), LAMBDA d : d.message.key = value)
  IN /\ Len(about) = 1
     /\ \A i \in groupOf(result, field, value) :
          \E k \in 1..Len(about[1].message.records) :
            about[1].message.records[k][1] = result.routes[i].id

\* C21: routes that differ only in parameter names have the same signature;
\* every group of two or more routes sharing a signature gets exactly one
\* 'Route signature conflict' error that names every route id of the group;
\* when no two routes share a routePath these are the only errors.
C21_SignatureConflicts ==
  scanned # <<>> =>
    LET result == scanned[1]
        routes == result.routes
        shared == {routes[i].signature : i \in {k \in 1..Len(routes) :
                     Cardinality(groupOf(result, "signature", routes[k].signature)) >= 2}}
    IN /\ \A i, j \in 1..Len(routes) :
            sameButNames(routes[i].segments, routes[j].segments)
              => routes[i].signature = routes[j].signature
       /\ \A signature \in shared :
            oneNamingAll(result, "Route signature conflict", "signature", signature)
       /\ Len(errorsOf(result, "Route signature conflict")) = Cardinality(shared)
       /\ (\A i, j \in 1..Len(routes) : i # j => routes[i].routePath # routes[j].routePath)
            => \A d \in 1..Len(result.diagnostics) :
                 result.diagnostics[d].level = "error"
                   => result.diagnostics[d].message.text = "Route signature conflict"

\* a/[x] and a/[y] were scanned: one signature, two routePaths, one error.
C21_Witness ==
  /\ scanned # <<>>
  /\ \E i, j \in 1..Len(scanned[1].routes) :
       /\ i # j
       /\ scanned[1].routes[i].signature = scanned[1].routes[j].signature
       /\ scanned[1].routes[i].routePath # scanned[1].routes[j].routePath
       /\ scanned[1].routes[i].segments[2].name # scanned[1].routes[j].segments[2].name
  /\ Len(scanned[1].diagnostics) = 1

\* C22: when exactly two scanned routes share a routePath and the tree has no
\* other conflict, scanRoutes emits exactly one error-level diagnostic, and it
\* names both route ids.
C22_DuplicatePath ==
  scanned # <<>> =>
    LET result == scanned[1]
        routes == result.routes
        alike(field) == {pair \in (1..Len(routes)) \X (1..Len(routes)) :
                           /\ pair[1] < pair[2]
                           /\ routes[pair[1]][field] = routes[pair[2]][field]}
    IN \A pair \in alike("routePath") :
         (alike("routePath") = {pair} /\ alike("signature") \subseteq {pair})
           => /\ Len(SelectSeq(result.diagnostics, LAMBDA d : d.level = "error")) = 1
              /\ oneNamingAll(result, "Duplicate route path", "routePath",
                              routes[pair[1]].routePath)

\* C22, amended: in such a tree scanRoutes emits exactly one 'Duplicate route
\* path' error, which names both route ids; it is the only error when the two
\* signatures differ, and comes with one 'Route signature conflict' error,
\* naming both ids too, when the two routes share their signature.
C22_DuplicatePathOnce ==
  scanned # <<>> =>
    LET result == scanned[1]
        routes == result.routes
        alike(field) == {pair \in (1..Len(routes)) \X (1..Len(routes)) :
                           /\ pair[1] < pair[2]
                           /\ routes[pair[1]][field] = routes[pair[2]][field]}
        errors == SelectSeq(result.diagnostics, LAMBDA d : d.level = "error")
    IN \A pair \in alike("routePath") :
         (alike("routePath") = {pair} /\ alike("signature") \subseteq {pair})
           => /\ oneNamingAll(result, "Duplicate route path", "routePath",
                              routes[pair[1]].routePath)
              /\ Len(errorsOf(result, "Duplicate route path")) = 1
              /\ IF pair \in alike("signature")
                 THEN /\ Len(errors) = 2
                      /\ oneNamingAll(result, "Route signature conflict", "signature",
                                      routes[pair[1]].signature)
                 ELSE Len(errors) = 1

\* a.ts and a/index.ts were scanned, alone or next to routes free of conflict.
C22_Witness ==
  /\ scanned # <<>>
  /\ \E i, j \in 1..Len(scanned[1].routes) :
       /\ scanned[1].routes[i].id = <<"a">>
       /\ scanned[1].routes[j].id = <<"a", "/", "i", "n", "d", "e", "x">>
  /\ Len(scanned[1].routes) <= 3
  /\ \A i, j \in 1..Len(scanned[1].routes) :
       (i # j /\ scanned[1].routes[i].routePath = scanned[1].routes[j].routePath)
         => scanned[1].routes[i].routePath = <<"/", "a">>

\* A file's path relative to routesDir without its extension, and the same
\* with a final 'index' segment dropped.
C23_withoutExt(file) == SubSeq(file, 1, Len(file) - Len(extname(file)))
C23_indexDropped(file) ==
  LET parts == split(C23_withoutExt(file), "/")
  IN join(IF parts[Len(parts)] = INDEX THEN SubSeq(parts, 1, Len(parts) - 1) ELSE parts,
          SLASH)

\* C23, as stated: the id of a route record is the file's path relative to
\* routesDir without extension and with a final 'index' segment dropped, so
\* a/index.<ext> has the id 'a' and the root index file the empty id.
C23_IdDropsIndex ==
  scanned # <<>> =>
    \A i \in 1..Len(scanned[1].routes) :
      scanned[1].routes[i].id = C23_indexDropped(scanned[1].routes[i].file)

\* C23, amended: the id is the file's path relative to routesDir without
\* extension, a final 'index' segment included (a/index.<ext> has the id
\* 'a/index', the root index file the id 'index'); the final 'index' is
\* dropped from the segments, and so from the routePath, only.
C23_IdKeepsIndex ==
  scanned # <<>> =>
    \A i \in 1..Len(scanned[1].routes) :
      LET route == scanned[1].routes[i]
      IN /\ route.id = C23_withoutExt(route.file)
         /\ route.routePath = toRoutePath(toSegments(C23_indexDropped(route.file)))
         /\ Len(route.segments) = Len(toSegments(C23_indexDropped(route.file)))

\* a/index.ts and the root index.tsx were scanned.
C23_Witness ==
  /\ scanned # <<>>
  /\ \E i, j \in 1..Len(scanned[1].routes) :
       /\ scanned[1].routes[i].file = <<"a", "/", "i", "n", "d", "e", "x", ".", "t", "s">>
       /\ scanned[1].routes[j].file = <<"i", "n", "d", "e", "x", ".", "t", "s", "x">>

\* encodeURIComponent on the characters of the file names: letters, '_', '.'
\* and '*' stay, every other character becomes its percent escape.
RECURSIVE encodeURIComponent(_)
encodeURIComponent(s) ==
  IF s = <<>> THEN <<>>
  ELSE (CASE s[1] = ":" -> <<"%", "3", "A">>
          [] s[1] = "?" -> <<"%", "3", "F">>
          [] s[1] = "[" -> <<"%", "5", "B">>
          [] s[1] = "]" -> <<"%", "5", "D">>
          [] OTHER -> <<s[1]>>) \o encodeURIComponent(Tail(s))

\* segment is open + name + close with a name of one character or more, none
\* of them a closing bracket; the name it wraps.
C24_wraps(segment, open, close) ==
  /\ Len(segment) > Len(open) + Len(close)
  /\ SubSeq(segment, 1, Len(open)) = open
  /\ SubSeq(segment, Len(segment) - Len(close) + 1, Len(segment)) = close
  /\ \A i \in (Len(open) + 1)..(Len(segment) - Len(close)) : segment[i] # "]"
C24_name(segment, open, close) ==
  SubSeq(segment, Len(open) + 1, Len(segment) - Len(close))

\* The segments of a route: the parts of its id, a final 'index' left out.
C24_parts(route) ==
  LET parts == split(route.id, "/")
  IN IF parts[Len(parts)] = INDEX THEN SubSeq(parts, 1, Len(parts) - 1) ELSE parts

\* The precedence: [...name], then [[name]], then [name], then static.
C24_parsed(route) ==
  /\ Len(route.segments) = Len(C24_parts(route))
  /\ \A i \in 1..Len(route.segments) :
       LET part == C24_parts(route)[i]
           segment == route.segments[i]
       IN IF C24_wraps(part, <<"[", ".", ".", ".">>, <<"]">>)
          THEN segment.kind = "rest"
               /\ segment.name = C24_name(part, <<"[", ".", ".", ".">>, <<"]">>)
          ELSE IF C24_wraps(part, <<"[", "[">>, <<"]", "]">>)
          THEN segment.kind = "optional-param"
               /\ segment.name = C24_name(part, <<"[", "[">>, <<"]", "]">>)
          ELSE IF C24_wraps(part, <<"[">>, <<"]">>)
          THEN segment.kind = "param" /\ segment.name = C24_name(part, <<"[">>, <<"]">>)
          ELSE segment.kind = "static" /\ segment.value = part

\* The routePath made of a token per segment, a static segment's literal
\* URL-encoded or as it is.
C24_token(segment, encoded) ==
  CASE segment.kind = "static" -> IF encoded THEN encodeURIComponent(segment.value)
                                  ELSE segment.value
    [] segment.kind = "param" -> <<":">> \o segment.name
    [] segment.kind = "optional-param" -> <<":">> \o segment.name \o <<"?">>
    [] OTHER -> <<"*">> \o segment.name
C24_path(route, encoded) ==
  SLASH \o join([i \in 1..Len(route.segments) |-> C24_token(route.segments[i], encoded)],
                SLASH)

\* Every route of a scan is parsed by the precedence.
C24_Precedence ==
  scanned # <<>> => \A i \in 1..Len(scanned[1].routes) : C24_parsed(scanned[1].routes[i])

\* Every routePath of a scan has its static segments as the literal text.
C24_LiteralPaths ==
  scanned # <<>> =>
    \A i \in 1..Len(scanned[1].routes) :
      scanned[1].routes[i].routePath = C24_path(scanned[1].routes[i], FALSE)

\* C24: each path segment is parsed with the precedence [...name] -> rest,
\* [[name]] -> optional param, [name] -> param, anything else -> static with
\* the literal text; the routePath is '/' followed by the '/'-joined tokens,
\* a static segment as its URL-encoded literal, a param as ':name', an
\* optional param as ':name?', a rest segment as '*name', and '/' when a
\* final 'index' leaves no segments.
C24_SegmentsAndPath ==
  scanned # <<>> =>
    \A i \in 1..Len(scanned[1].routes) :
      /\ C24_parsed(scanned[1].routes[i])
      /\ scanned[1].routes[i].routePath = C24_path(scanned[1].routes[i], TRUE)

\* How many segments of a list are of the given kind.
C25_count(segments, kind) == Cardinality({i \in 1..Len(segments) : segments[i].kind = kind})

\* 100 per static segment, 10 per param, 9 per optional param, 1 per rest
\* segment and 1 per segment.
C25_score(segments) ==
  100 * C25_count(segments, "static") + 10 * C25_count(segments, "param")
    + 9 * C25_count(segments, "optional-param") + C25_count(segments, "rest")
    + Len(segments)

\* The ids of the routes /a/b, /a/:x, /a/:x? and /a/*x, in the order the
\* claim gives them.
C25_example ==
  << <<"a", "/", "b">>, <<"a", "/", "[", "x", "]">>, <<"a", "/", "[", "[", "x", "]", "]">>,
     <<"a", "/", "[", ".", ".", ".", "x", "]">> >>

\* C25: scanRoutes returns its routes sorted by descending score, ties by
\* ascending id, with score = 100 per static segment + 10 per param + 9 per
\* optional param + 1 per rest segment + 1 per segment: of every adjacent pair
\* the earlier route has a strictly higher score, or an equal score and an id
\* not greater; so /a/b, /a/:x, /a/:x? and /a/*x appear in this order.
C25_Sorted ==
  scanned # <<>> =>
    LET routes == scanned[1].routes
    IN /\ \A i \in 1..Len(routes) : routes[i].score = C25_score(routes[i].segments)
       /\ \A i \in 1..(Len(routes) - 1) :
            \/ routes[i].score > routes[i + 1].score
            \/ /\ routes[i].score = routes[i + 1].score
               /\ localeCompare(routes[i].id, routes[i + 1].id) <= 0
       /\ \A i, j \in 1..Len(routes), m, n \in 1..Len(C25_example) :
            (routes[i].id = C25_example[m] /\ routes[j].id = C25_example[n] /\ m < n)
              => i < j

\* Three of the example's routes were scanned, the rest route among them.
C25_Witness ==
  /\ scanned # <<>>
  /\ Len(scanned[1].routes) = 3
  /\ \A i \in 1..3 : \E m \in 1..Len(C25_example) :
       scanned[1].routes[i].id = C25_example[m]
  /\ scanned[1].routes[3].id = C25_example[4]
  /\ scanned[1].routes[1].score > scanned[1].routes[2].score

\* C26: of any two route records of a scan result, the one with strictly more
\* static segments comes before the one with fewer, whatever the number and
\* kinds of their dynamic segments.
C26_MoreStaticFirst ==
  scanned # <<>> =>
    LET routes == scanned[1].routes
    IN \A i, j \in 1..Len(routes) :
         C25_count(routes[i].segments, "static") > C25_count(routes[j].segments, "static")
           => i < j

\* C27: scanRoutes does not throw on route conflicts, it returns them as
\* diagnostics; assertNoRouteErrors throws if and only if the diagnostics
\* hold an error-level entry; a missing routesDir yields no route and exactly
\* one warn-level diagnostic, which does not make assertNoRouteErrors throw.
C27_Failures ==
  scanned # <<>> =>
    LET result == scanned[1]
        hasError == \E d \in 1..Len(result.diagnostics) : result.diagnostics[d].level = "error"
        alike == \E i, j \in 1..Len(result.routes) :
                   /\ i # j
                   /\ \/ result.routes[i].routePath = result.routes[j].routePath
                      \/ result.routes[i].signature = result.routes[j].signature
    IN /\ alike => hasError
       /\ asserted # <<>> => (asserted[1].threw <=> hasError)
       /\ ~routesDir.exists =>
            /\ result.routes = <<>>
            /\ Len(result.diagnostics) = 1
            /\ result.diagnostics[1].level = "warn"
            /\ asserted # <<>> => ~asserted[1].threw

\* The scan of a missing routesDir went through assertNoRouteErrors.
C27_Witness ==
  /\ ~routesDir.exists
  /\ scanned # <<>>
  /\ asserted # <<>>

\* C28: for each route definition built by createFileRoutes, across any
\* sequence of preload calls the initial data of the route is returned at
\* most once, and only by the first preload call of that definition; every
\* later call gets its data from the fetcher (fetchData or the data
\* endpoint), or undefined when fetchData is false.
C28_InitialDataOnce ==
  \A id \in FileRouteIds :
    LET mine == SelectSeq(preloaded, LAMBDA call : call.key = id)
    IN /\ Cardinality({k \in 1..Len(mine) : mine[k].from = "initialData"}) <= 1
       /\ \A k \in 1..Len(mine) :
            /\ mine[k].from = "initialData" => k = 1
            /\ k > 1 => mine[k].from = (IF fetchData = "false" THEN "undefined"
                                        ELSE IF fetchData = "function" THEN "fetchData"
                                        ELSE "fetchRouteData")

\* A route with initial data was preloaded three times.
C28_Witness ==
  \E id \in initialData :
    /\ Len(preloaded) = 3
    /\ \A k \in 1..3 : preloaded[k].key = id
    /\ preloaded[1].from = "initialData"
    /\ preloaded[3].from = "fetchData"

\* resolve() has matched the path of run r's page request against the routes
\* and found no route.
C29_noMatch(r) ==
  /\ classify(req[r]) = "route"
  /\ resolveCalls[r] >= 1
  /\ pc[r] \notin {"start", "hookPre", "resolve", "off"}
  /\ matches[r] = <<>>

\* C29: a page request (neither data nor action) whose path matches no route
\* is not rejected: no module is read and no load invoked, the template is
\* fetched and render invoked with the empty match chain and the empty data
\* map, and the response render leads to has the staged status (200 unless
\* setStatus changed it) and content-type text/html; only an exception of
\* getTemplate or render gives another response, the 500.
C29_NoMatchRenders ==
  \A r \in Runs :
    C29_noMatch(r) =>
      /\ calls[r]["module"] = 0 /\ calls[r]["load"] = 0 /\ loads[r] = <<>>
      /\ calls[r]["getTemplate"] = 1
      /\ routeData[r] = <<>>
      /\ last[r].ev = "getTemplate" => (pc[r] = "render" /\ calls[r]["render"] = 1)
      /\ ~hooks.handle => responseStatus[r] = 200
      /\ (resolveSettled(r) /\ last[r].ev = "render") =>
           /\ resolved(r).kind = "response"
           /\ calls[r]["render"] = 1
           /\ resolved(r).response.status = responseStatus[r]
           /\ resolved(r).response.headers["content-type"] = HTML_TYPE
      /\ (resolveSettled(r) /\ resolved(r).kind = "response" /\ last[r].ev # "render") =>
           /\ threw[r] \in {"getTemplate", "render"}
           /\ resolved(r).response.status = 500

\* A request without hooks matched no route and render's html was sent
\* under status 200.
C29_Witness ==
  /\ ~hooks.handle
  /\ C29_noMatch(1)
  /\ pc[1] = "done"
  /\ last[1].ev = "render"
  /\ outcome[1].response.status = 200
  /\ calls[1]["render"] = 1

\* Changes have stopped and every rebuildRoutes call has completed.
C30_quiet ==
  /\ rebuilds # <<>>
  /\ \A k \in 1..Len(rebuilds) : rebuilds[k].pc \in {"published", "failed"}

\* The published route table and route modules are those of a scan of the
\* tree as it is now.
C30_current == \E result \in scansOf(routesDir.files) : plugin = published(result)

\* C30: when change events trigger overlapping rescans, then once changes
\* have stopped and all rescans have completed, the published route table
\* and generated route modules equal the scan of the final file tree (here:
\* a tree whose scan has no error), and a rescan that started earlier never
\* overwrites the result of one that started later.
C30_LatestScanWins ==
  /\ [](( /\ C30_quiet
          /\ \A result \in scansOf(routesDir.files) :
               ~assertNoRouteErrors(result.diagnostics).threw )
          => C30_current)
  /\ [][\A k \in 1..Len(rebuilds) :
          (rebuilds[k].pc = "walked" /\ rebuilds'[k].pc = "published")
            => \A j \in (k + 1)..Len(rebuilds) : rebuilds[j].pc # "published"]_vars

====
